---- MODULE Spec2Model ----
(***************************************************************************)
(* Model of the in-memory relational engine of mryan-3/rdbms:              *)
(*   internal/storage  values, schema, B-tree index, table, catalog        *)
(*   internal/sql      executor (INSERT / UPDATE / DELETE statements)      *)
(* Go slices are 0-based; the operators below keep the code's 0-based      *)
(* column indexes, row ids and child indexes and convert at the point of   *)
(* access (Get, At).                                                       *)
(***************************************************************************)
EXTENDS Integers, Sequences, FiniteSets, TLC

VARIABLES db, last, maxIns, heap, threads, locks, bt

\* the state of the single-threaded table operations
tableVars == <<db, last, maxIns>>

\* the object heap, the threads and their locks, and the stand-alone B-tree:
\* used by the specifications about aliasing, concurrency and the index
aux == <<heap, threads, locks, bt>>

vars == <<db, last, maxIns, heap, threads, locks, bt>>

\* no heap object, no thread, no lock held, no stand-alone tree
NoAux == heap = <<>> /\ threads = <<>> /\ locks = <<>> /\ bt = <<>>

(***************************************************************************)
(* Bounds of the model.                                                    *)
(***************************************************************************)
MaxInt == 2
NText == 2
MaxSeq == 3
MaxRows == 2
MaxTuples == 2

(***************************************************************************)
(* types.go: the value system.                                             *)
(***************************************************************************)
TypeInteger == 0
TypeFloat == 1
TypeText == 2
TypeBoolean == 3
TypeNull == 4

\* NullValue{}
Null == [t |-> TypeNull, v |-> 0]

\* a Go nil interface value (an unset Column.Default, an unfilled slot)
Nil == [t |-> -1, v |-> 0]

NewIntegerValue(n) == [t |-> TypeInteger, v |-> n]

\* Text values are numbered; the numbering is the lexicographic order
NewTextValue(n) == [t |-> TypeText, v |-> n]

IntVals == {NewIntegerValue(n) : n \in 1..MaxInt}
TextVals == {NewTextValue(n) : n \in 1..NText}
Vals == IntVals \cup TextVals \cup {Null}

\* Value.Equals: NullValue.Equals is a type test, the others compare payloads
Equals(a, b) ==
    IF a.t = TypeNull THEN b.t = TypeNull
    ELSE a.t = b.t /\ a.v = b.v

\* Value.LessThan: NullValue.LessThan is false, the others need the same tag
LessThan(a, b) ==
    IF a.t = TypeNull THEN FALSE
    ELSE a.t = b.t /\ a.v < b.v

(***************************************************************************)
(* Row: a vector of values, indexed from 0 as in the code.                 *)
(***************************************************************************)
InRange(row, index) == index >= 0 /\ index < Len(row)

\* Row.Get, for an index the caller knows to be in range
Get(row, index) == row[index + 1]

\* Row.Set: out of range is an error the callers ignore
Set(row, index, value) ==
    IF InRange(row, index) THEN [row EXCEPT ![index + 1] = value] ELSE row

\* s[from:] and s[:to] of a Go slice
SliceFrom(s, from) == SubSeq(s, from + 1, Len(s))
SliceTo(s, to) == SubSeq(s, 1, to)

(***************************************************************************)
(* Schema                                                                  *)
(***************************************************************************)
NewColumn(name, type, pk, unique, notNull) ==
    [Name |-> name, Type |-> type, PrimaryKey |-> pk, Unique |-> unique,
     NotNull |-> notNull, Default |-> Nil]

\* Schema.ColumnIndex: position of the first column of that name, or -1
RECURSIVE ColumnIndexFrom(_, _, _)
ColumnIndexFrom(schema, name, i) ==
    IF i >= Len(schema) THEN -1
    ELSE IF schema[i + 1].Name = name THEN i
    ELSE ColumnIndexFrom(schema, name, i + 1)

ColumnIndex(schema, name) == ColumnIndexFrom(schema, name, 0)

\* Schema.GetColumn, existence part
HasColumn(schema, name) == ColumnIndex(schema, name) >= 0

\* Schema.PrimaryKeyColumns, as 0-based column indexes in schema order
PrimaryKeyColumns(schema) ==
    {i \in 0..(Len(schema) - 1) : schema[i + 1].PrimaryKey}

(***************************************************************************)
(* B-tree index (second half of table.go).  A node is a record             *)
(*   [keys, children, isLeaf, rowPtrs]; a tree is its root node.           *)
(***************************************************************************)
defaultOrder == 4

\* the value a panicking B-tree operation leaves behind (index out of range)
Panic == [panic |-> TRUE]
IsPanic(n) == "panic" \in DOMAIN n

NewBTree == [keys |-> <<>>, children |-> <<>>, isLeaf |-> TRUE, rowPtrs |-> <<>>]

\* element i (0-based) of a slice
At(s, i) == s[i + 1]

\* parent.keys = append(parent.keys[:i], append([]Value{x}, parent.keys[i:]...)...)
InsertAt(s, i, x) == SliceTo(s, i) \o <<x>> \o SliceFrom(s, i)

\* append(s[:i], s[i+1:]...)
RemoveAt(s, i) == SliceTo(s, i) \o SliceFrom(s, i + 1)

splitChild(parent, i) ==
    LET order == defaultOrder
        t == At(parent.children, i)
        midKey == At(t.keys, order - 1)
        newNode == [keys |-> SliceFrom(t.keys, order),
                    children |-> IF t.isLeaf THEN <<>> ELSE SliceFrom(t.children, order),
                    isLeaf |-> t.isLeaf,
                    rowPtrs |-> IF t.isLeaf THEN SliceFrom(t.rowPtrs, order) ELSE <<>>]
        t2 == [keys |-> SliceTo(t.keys, order - 1),
               children |-> IF t.isLeaf THEN t.children ELSE SliceTo(t.children, order),
               isLeaf |-> t.isLeaf,
               rowPtrs |-> IF t.isLeaf THEN SliceTo(t.rowPtrs, order - 1) ELSE t.rowPtrs]
    IN [parent EXCEPT
            !.keys = InsertAt(parent.keys, i, midKey),
            !.children = InsertAt([parent.children EXCEPT ![i + 1] = t2], i + 1, newNode)]

\* the loop "for i >= 0 && key.LessThan(node.keys[i]) { i-- }"
RECURSIVE ScanDown(_, _, _)
ScanDown(keys, key, i) ==
    IF i >= 0 /\ LessThan(key, At(keys, i)) THEN ScanDown(keys, key, i - 1) ELSE i

RECURSIVE insertNonFull(_, _, _)
insertNonFull(node, key, rowPtr) ==
    LET i0 == ScanDown(node.keys, key, Len(node.keys) - 1) IN
    IF node.isLeaf
    THEN [node EXCEPT !.keys = InsertAt(node.keys, i0 + 1, key),
                      !.rowPtrs = InsertAt(node.rowPtrs, i0 + 1, rowPtr)]
    ELSE LET i1 == i0 + 1
             full == Len(At(node.children, i1).keys) >= 2 * defaultOrder - 1
             node2 == IF full THEN splitChild(node, i1) ELSE node
             i2 == IF full /\ LessThan(key, At(node2.keys, i1)) THEN i1 + 1 ELSE i1
         IN IF full /\ Equals(key, At(node2.keys, i1))
            THEN node2
            ELSE [node2 EXCEPT !.children[i2 + 1] =
                        insertNonFull(At(node2.children, i2), key, rowPtr)]

\* a variant of BTree.Insert that never splits the root
BTreeInsertNoSplit(root, key, rowPtr) == insertNonFull(root, key, rowPtr)

\* BTree.Insert (the root is never nil after NewBTree); it never fails
BTreeInsert(root, key, rowPtr) ==
    IF Len(root.keys) >= 2 * defaultOrder - 1
    THEN LET newRoot == [keys |-> <<>>, children |-> <<root>>,
                         isLeaf |-> FALSE, rowPtrs |-> <<>>]
         IN insertNonFull(splitChild(newRoot, 0), key, rowPtr)
    ELSE insertNonFull(root, key, rowPtr)

\* the loop "for i < len(node.keys) && key.LessThan(node.keys[i]) { i++ }"
RECURSIVE ScanUp(_, _, _)
ScanUp(keys, key, i) ==
    IF i < Len(keys) /\ LessThan(key, At(keys, i)) THEN ScanUp(keys, key, i + 1) ELSE i

\* BTree.lookup: [found, ptr, panic]
RECURSIVE lookup(_, _)
lookup(node, key) ==
    LET i == ScanUp(node.keys, key, 0) IN
    IF i < Len(node.keys) /\ Equals(key, At(node.keys, i))
    THEN IF i < Len(node.rowPtrs)
         THEN [found |-> TRUE, ptr |-> At(node.rowPtrs, i), panic |-> FALSE]
         ELSE [found |-> FALSE, ptr |-> -1, panic |-> TRUE]
    ELSE IF node.isLeaf
         THEN [found |-> FALSE, ptr |-> -1, panic |-> FALSE]
         ELSE lookup(At(node.children, i), key)

BTreeLookup(root, key) == lookup(root, key)

RECURSIVE containsKey(_, _)
containsKey(node, key) ==
    LET i == ScanUp(node.keys, key, 0) IN
    IF i < Len(node.keys) /\ Equals(key, At(node.keys, i))
    THEN TRUE
    ELSE IF node.isLeaf THEN FALSE
         ELSE containsKey(At(node.children, i), key)

\* BTree.count: the traversal of count/scan, collecting the keys it visits
RECURSIVE scanKeys(_)
scanKeys(node) ==
    LET RECURSIVE walk(_)
        walk(i) ==
            IF i >= Len(node.keys)
            THEN IF node.isLeaf THEN <<>> ELSE scanKeys(At(node.children, i))
            ELSE (IF node.isLeaf THEN <<>> ELSE scanKeys(At(node.children, i)))
                 \o <<At(node.keys, i)>> \o walk(i + 1)
    IN walk(0)

BTreeCount(root) == Len(scanKeys(root))

\* the (key, payload) pairs a tree stores: slot i of keys with slot i of rowPtrs
RECURSIVE Entries(_)
Entries(node) ==
    {<<At(node.keys, i), At(node.rowPtrs, i)>> :
        i \in {j \in 0..(Len(node.keys) - 1) : j < Len(node.rowPtrs)}}
    \cup UNION {Entries(node.children[c]) : c \in 1..Len(node.children)}

\* the keys a tree holds
Keys(node) == {At(scanKeys(node), i) : i \in 0..(Len(scanKeys(node)) - 1)}

\* BTree.findKey
RECURSIVE findKeyFrom(_, _, _)
findKeyFrom(keys, key, idx) ==
    IF idx < Len(keys) /\ ~LessThan(key, At(keys, idx))
    THEN findKeyFrom(keys, key, idx + 1) ELSE idx

findKey(node, key) == findKeyFrom(node.keys, key, 0)

removeFromLeaf(node, idx) ==
    IF idx < Len(node.rowPtrs)
    THEN [node EXCEPT !.keys = RemoveAt(node.keys, idx),
                      !.rowPtrs = RemoveAt(node.rowPtrs, idx)]
    ELSE Panic

RECURSIVE getPredecessorFrom(_)
getPredecessorFrom(current) ==
    IF current.isLeaf THEN At(current.keys, Len(current.keys) - 1)
    ELSE getPredecessorFrom(At(current.children, Len(current.keys)))

getPredecessor(node, idx) == getPredecessorFrom(At(node.children, idx))

RECURSIVE getSuccessorFrom(_)
getSuccessorFrom(current) ==
    IF current.isLeaf THEN At(current.keys, 0)
    ELSE getSuccessorFrom(At(current.children, 0))

getSuccessor(node, idx) == getSuccessorFrom(At(node.children, idx + 1))

borrowFromPrev(node, idx) ==
    LET child == At(node.children, idx)
        sibling == At(node.children, idx - 1)
    IN IF Len(child.rowPtrs) = 0 \/ Len(sibling.rowPtrs) = 0
       THEN Panic
       ELSE LET child2 == [child EXCEPT
                    !.keys = <<At(node.keys, idx - 1)>> \o child.keys,
                    !.rowPtrs = <<At(child.rowPtrs, 0)>> \o child.rowPtrs,
                    !.children = IF child.isLeaf THEN child.children
                                 ELSE <<At(sibling.children, Len(sibling.children) - 1)>>
                                      \o child.children]
                sibling2 == [sibling EXCEPT
                    !.keys = SliceTo(sibling.keys, Len(sibling.keys) - 1),
                    !.rowPtrs = SliceTo(sibling.rowPtrs, Len(sibling.rowPtrs) - 1),
                    !.children = IF child.isLeaf THEN sibling.children
                                 ELSE SliceTo(sibling.children, Len(sibling.children) - 1)]
            IN [node EXCEPT
                    !.keys[idx] = At(sibling.keys, Len(sibling.keys) - 1),
                    !.children[idx + 1] = child2,
                    !.children[idx] = sibling2]

borrowFromNext(node, idx) ==
    LET child == At(node.children, idx)
        sibling == At(node.children, idx + 1)
    IN IF Len(sibling.rowPtrs) = 0
       THEN Panic
       ELSE LET child2 == [child EXCEPT
                    !.keys = child.keys \o <<At(node.keys, idx)>>,
                    !.rowPtrs = child.rowPtrs \o <<At(sibling.rowPtrs, 0)>>,
                    !.children = IF child.isLeaf THEN child.children
                                 ELSE child.children \o <<At(sibling.children, 0)>>]
                sibling2 == [sibling EXCEPT
                    !.keys = SliceFrom(sibling.keys, 1),
                    !.rowPtrs = SliceFrom(sibling.rowPtrs, 1),
                    !.children = IF child.isLeaf THEN sibling.children
                                 ELSE SliceFrom(sibling.children, 1)]
            IN [node EXCEPT
                    !.keys[idx + 1] = At(sibling.keys, 0),
                    !.children[idx + 1] = child2,
                    !.children[idx + 2] = sibling2]

merge(node, idx) ==
    LET child == At(node.children, idx)
        sibling == At(node.children, idx + 1)
        child2 == [child EXCEPT
            !.keys = child.keys \o <<At(node.keys, idx)>> \o sibling.keys,
            !.rowPtrs = child.rowPtrs \o sibling.rowPtrs,
            !.children = IF child.isLeaf THEN child.children
                         ELSE child.children \o sibling.children]
    IN [node EXCEPT
            !.keys = RemoveAt(node.keys, idx),
            !.children = RemoveAt([node.children EXCEPT ![idx + 1] = child2], idx + 1)]

fill(node, idx) ==
    IF idx # 0 /\ Len(At(node.children, idx - 1).keys) >= defaultOrder
    THEN borrowFromPrev(node, idx)
    ELSE IF idx # Len(node.keys) /\ Len(At(node.children, idx + 1).keys) >= defaultOrder
         THEN borrowFromNext(node, idx)
         ELSE IF idx # Len(node.keys) THEN merge(node, idx) ELSE merge(node, idx - 1)

\* replace child c (0-based) of node by the result of a recursive delete
WithChild(node, c, sub) ==
    IF IsPanic(sub) THEN Panic ELSE [node EXCEPT !.children[c + 1] = sub]

RECURSIVE deleteKey(_, _)
removeFromInternal(node, idx) ==
    LET key == At(node.keys, idx) IN
    IF Len(At(node.children, idx).keys) >= defaultOrder
    THEN LET pred == getPredecessor(node, idx)
             node2 == [node EXCEPT !.keys[idx + 1] = pred]
         IN WithChild(node2, idx, deleteKey(At(node2.children, idx), pred))
    ELSE IF Len(At(node.children, idx + 1).keys) >= defaultOrder
         THEN LET succ == getSuccessor(node, idx)
                  node2 == [node EXCEPT !.keys[idx + 1] = succ]
              IN WithChild(node2, idx + 1, deleteKey(At(node2.children, idx + 1), succ))
         ELSE LET node2 == merge(node, idx)
              IN WithChild(node2, idx, deleteKey(At(node2.children, idx), key))

deleteKey(node, key) ==
    LET idx == findKey(node, key) IN
    IF idx < Len(node.keys) /\ Equals(key, At(node.keys, idx))
    THEN IF node.isLeaf THEN removeFromLeaf(node, idx)
         ELSE removeFromInternal(node, idx)
    ELSE IF node.isLeaf THEN node
    ELSE LET flag == (idx = Len(node.keys))
             node2 == IF Len(At(node.children, idx).keys) < defaultOrder
                      THEN fill(node, idx) ELSE node
         IN IF IsPanic(node2) THEN Panic
            ELSE IF flag /\ idx > Len(node2.keys)
                 THEN WithChild(node2, idx - 1, deleteKey(At(node2.children, idx - 1), key))
                 ELSE WithChild(node2, idx, deleteKey(At(node2.children, idx), key))

\* BTree.Delete: [root, err]; "key not found" leaves the tree alone
BTreeDelete(root, key) ==
    IF ~containsKey(root, key)
    THEN [root |-> root, err |-> "key not found"]
    ELSE LET r == deleteKey(root, key) IN
         IF IsPanic(r) THEN [root |-> Panic, err |-> "panic"]
         ELSE IF Len(r.keys) = 0 /\ ~r.isLeaf
              THEN [root |-> At(r.children, 0), err |-> "nil"]
              ELSE [root |-> r, err |-> "nil"]

(***************************************************************************)
(* Table (first half of table.go).  A table is a record                    *)
(*   [Name, Schema, Rows, Indexes, RowIDSeq, ForeignKeys];                 *)
(* Indexes is a function from the indexed column names to B-trees.         *)
(***************************************************************************)
FKActionCascade == "CASCADE"
FKActionRestrict == "RESTRICT"
FKActionSetNull == "SET NULL"
FKActionNoAction == "NO ACTION"

NewTable(name, schema) ==
    [Name |-> name, Schema |-> schema, Rows |-> <<>>,
     Indexes |-> [c \in {} |-> NewBTree], RowIDSeq |-> 1, ForeignKeys |-> <<>>]

\* the index map with one entry added or replaced
WithIndex(indexes, columnName, index) ==
    [c \in DOMAIN indexes \cup {columnName} |->
        IF c = columnName THEN index ELSE indexes[c]]

\* Table.AddIndex: the backfill loop inserts the value of every row
RECURSIVE Backfill(_, _, _, _)
Backfill(index, rows, colIndex, rowID) ==
    IF rowID >= Len(rows) THEN index
    ELSE Backfill(IF InRange(At(rows, rowID), colIndex)
                  THEN BTreeInsert(index, Get(At(rows, rowID), colIndex), rowID)
                  ELSE index,
                  rows, colIndex, rowID + 1)

TableAddIndex(t, columnName) ==
    IF ~HasColumn(t.Schema, columnName)
    THEN [t |-> t, err |-> "column not found"]
    ELSE IF columnName \in DOMAIN t.Indexes
    THEN [t |-> t, err |-> "index exists"]
    ELSE [t |-> [t EXCEPT !.Indexes =
                    WithIndex(t.Indexes, columnName,
                              Backfill(NewBTree, t.Rows,
                                       ColumnIndex(t.Schema, columnName), 0))],
          err |-> "nil"]

TableRemoveIndex(t, columnName) ==
    IF columnName \notin DOMAIN t.Indexes
    THEN [t |-> t, err |-> "index not found"]
    ELSE [t |-> [t EXCEPT !.Indexes =
                    [c \in DOMAIN t.Indexes \ {columnName} |-> t.Indexes[c]]],
          err |-> "nil"]

\* Table.Insert, lines 132-139: the first primary-key column, or -1
RECURSIVE PkColIndexFrom(_, _)
PkColIndexFrom(schema, i) ==
    IF i >= Len(schema) THEN -1
    ELSE IF schema[i + 1].PrimaryKey THEN i
    ELSE PkColIndexFrom(schema, i + 1)

PkColIndex(schema) == PkColIndexFrom(schema, 0)

\* Table.Insert, lines 141-151
IsPKNull(schema, row) ==
    LET pkColIndex == PkColIndex(schema) IN
    /\ pkColIndex # -1
    /\ IF pkColIndex < Len(row) THEN Get(row, pkColIndex).t = TypeNull ELSE TRUE

\* Table.Insert, lines 153-165: extend the row up to the key slot and assign
\* the sequence value
AssignPK(t, row) ==
    LET pkColIndex == PkColIndex(t.Schema)
        ext == IF pkColIndex >= Len(row)
               THEN [i \in 1..(pkColIndex + 1) |->
                        IF i <= Len(row) THEN row[i] ELSE Null]
               ELSE row
    IN IF IsPKNull(t.Schema, row)
       THEN Set(ext, pkColIndex, NewIntegerValue(t.RowIDSeq))
       ELSE row

\* some stored row holds a value equal to val in column colIndex
Duplicate(rows, colIndex, val) ==
    \E r \in 1..Len(rows) :
        InRange(rows[r], colIndex) /\ Equals(val, Get(rows[r], colIndex))

\* Table.Insert, lines 196-200: the sequence moves to the rejected key
SeqOnPKViolation(seq, val) ==
    IF val.t = TypeInteger /\ val.v >= seq THEN val.v ELSE seq

\* Table.Insert, lines 172-215: the per-column checks, column by column;
\* the result is the first error and the sequence it leaves
RECURSIVE CheckColumns(_, _, _)
CheckColumns(t, row, i) ==
    IF i >= Len(t.Schema) THEN [err |-> "nil", seq |-> t.RowIDSeq]
    ELSE IF i >= Len(row) THEN CheckColumns(t, row, i + 1)
    ELSE LET col == At(t.Schema, i)
             val == Get(row, i)
             colIndex == ColumnIndex(t.Schema, col.Name)
         IN IF val.t # col.Type /\ val.t # TypeNull
            THEN [err |-> "type mismatch", seq |-> t.RowIDSeq]
            ELSE IF col.NotNull /\ val.t = TypeNull /\ ~col.PrimaryKey
            THEN [err |-> "cannot be null", seq |-> t.RowIDSeq]
            ELSE IF col.PrimaryKey /\ val.t # TypeNull /\ Duplicate(t.Rows, colIndex, val)
            THEN [err |-> "primary key violation",
                  seq |-> SeqOnPKViolation(t.RowIDSeq, val)]
            ELSE IF col.Unique /\ val.t # TypeNull /\ Duplicate(t.Rows, colIndex, val)
            THEN [err |-> "unique constraint violation", seq |-> t.RowIDSeq]
            ELSE CheckColumns(t, row, i + 1)

\* Table.checkForeignKey: collects the local values and checks nothing else;
\* it fails only when a foreign-key column is not a slot of the row
checkForeignKey(t, row, fk) ==
    IF \E i \in 1..Len(fk.Columns) :
            ~InRange(row, ColumnIndex(t.Schema, fk.Columns[i]))
    THEN "index out of bounds"
    ELSE "nil"

\* Table.Insert, lines 217-221
CheckForeignKeys(t, row) ==
    IF \E f \in 1..Len(t.ForeignKeys) : checkForeignKey(t, row, t.ForeignKeys[f]) # "nil"
    THEN "foreign key constraint violation"
    ELSE "nil"

\* a variant of FinalRow that stores the row as it was given
FinalRowAsGiven(t, row) == row

\* Table.Insert, lines 223-242: trailing slots get the default or Null
FinalRow(t, row) ==
    IF Len(row) < Len(t.Schema)
    THEN [i \in 1..Len(t.Schema) |->
            IF i <= Len(row) THEN row[i]
            ELSE IF t.Schema[i].Default # Nil THEN t.Schema[i].Default
            ELSE IF i - 1 # PkColIndex(t.Schema) THEN Null ELSE Nil]
    ELSE row

\* a variant of AdjustSeq that never moves the sequence to a stored key
AdjustSeqKeep(t, finalRow) == t.RowIDSeq

\* Table.Insert, lines 244-253
AdjustSeq(t, finalRow) ==
    LET pkColIndex == PkColIndex(t.Schema) IN
    IF /\ pkColIndex # -1
       /\ InRange(finalRow, pkColIndex)
       /\ Get(finalRow, pkColIndex).t = TypeInteger
       /\ Get(finalRow, pkColIndex).v >= t.RowIDSeq
    THEN Get(finalRow, pkColIndex).v
    ELSE t.RowIDSeq

\* Table.Insert, lines 255-258
RowIDToReturn(seq, isPKNull) == IF isPKNull THEN seq ELSE seq - 1

\* Table.Insert, lines 265-274 (BTree.Insert never fails, so no rollback)
IndexRow(t, finalRow, rowID) ==
    [c \in DOMAIN t.Indexes |->
        LET colIndex == ColumnIndex(t.Schema, c) IN
        IF InRange(finalRow, colIndex) /\ Get(finalRow, colIndex).t # TypeNull
        THEN BTreeInsert(t.Indexes[c], Get(finalRow, colIndex), rowID)
        ELSE t.Indexes[c]]

\* a variant of Table.Insert that appends the row before the column checks
\* and returns their error without taking it back
TableInsertAppendFirst(t, row0) ==
    LET row == AssignPK(t, row0)
        chk == CheckColumns(t, row, 0)
    IN IF Len(row) > Len(t.Schema)
       THEN [t |-> t, id |-> -1, err |-> "column count"]
       ELSE [t |-> [t EXCEPT !.Rows = Append(t.Rows, FinalRow(t, row)),
                             !.RowIDSeq = chk.seq + 1],
             id |-> IF chk.err = "nil" THEN chk.seq ELSE -1, err |-> chk.err]

\* Table.Insert: [t, id, err]
TableInsert(t, row0) ==
    LET isPKNull == IsPKNull(t.Schema, row0)
        row == AssignPK(t, row0)
        chk == CheckColumns(t, row, 0)
    IN IF Len(row) > Len(t.Schema)
       THEN [t |-> t, id |-> -1, err |-> "column count"]
       ELSE IF chk.err # "nil"
       THEN [t |-> [t EXCEPT !.RowIDSeq = chk.seq], id |-> -1, err |-> chk.err]
       ELSE IF CheckForeignKeys(t, row) # "nil"
       THEN [t |-> t, id |-> -1, err |-> CheckForeignKeys(t, row)]
       ELSE LET finalRow == FinalRow(t, row)
                seq == AdjustSeq(t, finalRow)
                rowIDToReturn == RowIDToReturn(seq, isPKNull)
            IN [t |-> [t EXCEPT !.Rows = Append(t.Rows, finalRow),
                                !.RowIDSeq = seq + 1,
                                !.Indexes = IndexRow(t, finalRow, rowIDToReturn)],
                id |-> rowIDToReturn, err |-> "nil"]

\* Table.GetRow: [row, err]
TableGetRow(t, rowID) ==
    IF rowID < 0 \/ rowID >= Len(t.Rows)
    THEN [row |-> <<>>, err |-> "row not found"]
    ELSE [row |-> At(t.Rows, rowID), err |-> "nil"]

\* a variant of Table.Truncate that keeps the sequence
TableTruncateKeepSeq(t) ==
    [t EXCEPT !.Rows = <<>>, !.Indexes = [c \in DOMAIN t.Indexes |-> NewBTree]]

\* Table.Truncate
TableTruncate(t) ==
    [t EXCEPT !.Rows = <<>>, !.RowIDSeq = 1,
              !.Indexes = [c \in DOMAIN t.Indexes |-> NewBTree]]

\* Table.AddForeignKey
TableAddForeignKey(t, fk) ==
    IF Len(fk.Columns) # Len(fk.RefColumns)
    THEN [t |-> t, err |-> "column count mismatch"]
    ELSE IF \E i \in 1..Len(fk.Columns) : ~HasColumn(t.Schema, fk.Columns[i])
    THEN [t |-> t, err |-> "column not found"]
    ELSE [t |-> [t EXCEPT !.ForeignKeys = Append(t.ForeignKeys, fk)], err |-> "nil"]

(***************************************************************************)
(* Float and boolean values.                                               *)
(***************************************************************************)
MaxFloat == 4

\* floats are modelled by their whole values
NewFloatValue(n) == [t |-> TypeFloat, v |-> n]

\* false is 0 and true is 1, so that "!b.Value && o.Value" is v < v
NewBooleanValue(b) == [t |-> TypeBoolean, v |-> IF b THEN 1 ELSE 0]

(***************************************************************************)
(* Expressions of the executor.  An expression is a record whose field e   *)
(* names its Go type:                                                      *)
(*   Lit(v)          LiteralExpression, by the value parseLiteral returns  *)
(*   NullLit         NullLiteral                                           *)
(*   Col(t, c)       ColumnRef{Table: t, Column: c}                        *)
(*   Bin(l, op, r)   BinaryExpression                                      *)
(* and NoExpr is the nil Expression.  Operands are integers, text,         *)
(* booleans and Null; the float cases of the arithmetic are left out.      *)
(* A string of the result set is the sequence of its characters.           *)
(***************************************************************************)
Lit(v) == [e |-> "lit", v |-> v]
NullLit == [e |-> "null"]
Col(t, c) == [e |-> "col", Table |-> t, Column |-> c]
Bin(l, op, r) == [e |-> "bin", Left |-> l, Op |-> op, Right |-> r]
NoExpr == [e |-> "nil"]

\* an evaluation: the value, or the error
Ok(v) == [err |-> "nil", val |-> v]
Err(msg) == [err |-> msg, val |-> Nil]

Digits == <<"0", "1", "2", "3", "4", "5", "6", "7", "8", "9">>

\* strconv.FormatInt(n, 10)
RECURSIVE FormatNat(_)
FormatNat(n) ==
    IF n < 10 THEN <<Digits[n + 1]>>
    ELSE FormatNat(n \div 10) \o <<Digits[(n % 10) + 1]>>

FormatInt(n) == IF n < 0 THEN <<"-">> \o FormatNat(-n) ELSE FormatNat(n)

\* the text numbered n
Letters == <<"a", "b", "c", "d", "e", "f">>

\* Value.ToString
ValueToString(v) ==
    CASE v.t = TypeNull -> <<"N", "U", "L", "L">>
      [] v.t = TypeInteger -> FormatInt(v.v)
      [] v.t = TypeFloat -> FormatInt(v.v)
      [] v.t = TypeText -> <<Letters[v.v]>>
      [] v.t = TypeBoolean ->
            IF v.v = 1 THEN <<"t", "r", "u", "e">> ELSE <<"f", "a", "l", "s", "e">>

\* Executor.getValueAsBool; the numbered texts are not empty
getValueAsBool(v) ==
    CASE v.t = TypeBoolean -> v.v = 1
      [] v.t = TypeInteger -> v.v # 0
      [] v.t = TypeFloat -> v.v # 0
      [] v.t = TypeText -> TRUE
      [] OTHER -> FALSE

\* Go's integer division truncates toward zero
Quo(a, b) ==
    LET q == (IF a < 0 THEN -a ELSE a) \div (IF b < 0 THEN -b ELSE b)
    IN IF (a < 0) # (b < 0) THEN -q ELSE q

\* Executor.evaluateArithmeticOp
evaluateArithmeticOp(left, op, right) ==
    IF left.t = TypeInteger /\ right.t = TypeInteger
    THEN CASE op = "+" -> Ok(NewIntegerValue(left.v + right.v))
           [] op = "-" -> Ok(NewIntegerValue(left.v - right.v))
           [] op = "*" -> Ok(NewIntegerValue(left.v * right.v))
           [] op = "/" -> IF right.v = 0 THEN Err("division by zero")
                          ELSE Ok(NewIntegerValue(Quo(left.v, right.v)))
    ELSE Err("arithmetic operation not supported")

\* Executor.evaluateBinaryOp
evaluateBinaryOp(left, op, right) ==
    CASE op \in {"=", "=="} -> Ok(NewBooleanValue(Equals(left, right)))
      [] op \in {"!=", "<>"} -> Ok(NewBooleanValue(~Equals(left, right)))
      [] op = "<" -> Ok(NewBooleanValue(LessThan(left, right)))
      [] op = "<=" ->
            Ok(NewBooleanValue(LessThan(left, right) \/ Equals(left, right)))
      [] op = ">" ->
            Ok(NewBooleanValue(~LessThan(left, right) /\ ~Equals(left, right)))
      [] op = ">=" -> Ok(NewBooleanValue(~LessThan(left, right)))
      [] op = "AND" ->
            Ok(NewBooleanValue(getValueAsBool(left) /\ getValueAsBool(right)))
      [] op = "OR" ->
            Ok(NewBooleanValue(getValueAsBool(left) \/ getValueAsBool(right)))
      [] op \in {"+", "-", "*", "/"} -> evaluateArithmeticOp(left, op, right)
      [] OTHER -> Err("unsupported binary operator")

\* Row.Get: (value, nil), or (nil, error) out of range
RowGet(row, index) ==
    IF InRange(row, index) THEN Ok(Get(row, index)) ELSE Err("index out of range")

\* strconv.ParseInt of a numeral without sign
RECURSIVE ParseNat(_, _)
ParseNat(chars, acc) ==
    IF chars = <<>> THEN acc
    ELSE ParseNat(Tail(chars),
                  10 * acc + (CHOOSE d \in 0..9 : Digits[d + 1] = Head(chars)))

IsDigits(chars) == \A i \in 1..Len(chars) : \E d \in 1..10 : Digits[d] = chars[i]

\* isNumericLiteral: the regular expression ^-?\d+\.?\d*$
isNumericLiteral(chars) ==
    LET unsigned == IF chars # <<>> /\ Head(chars) = "-" THEN Tail(chars) ELSE chars
    IN \E n \in 1..Len(unsigned) :
        /\ IsDigits(SubSeq(unsigned, 1, n))
        /\ LET rest == SubSeq(unsigned, n + 1, Len(unsigned)) IN
           \/ IsDigits(rest)
           \/ rest # <<>> /\ Head(rest) = "." /\ IsDigits(Tail(rest))

containsDecimal(chars) == \E i \in 1..Len(chars) : chars[i] = "."

\* toLowerChar, for the capitals of TRUE and FALSE
toLowerChar(c) ==
    CASE c = "A" -> "a" [] c = "E" -> "e" [] c = "F" -> "f" [] c = "L" -> "l"
      [] c = "R" -> "r" [] c = "S" -> "s" [] c = "T" -> "t" [] c = "U" -> "u"
      [] OTHER -> c

toLower(chars) == [i \in 1..Len(chars) |-> toLowerChar(chars[i])]

\* the payload of the text with these characters: its number for the
\* one-letter texts of Letters, the characters themselves otherwise
TextOf(chars) ==
    IF Len(chars) = 1 /\ \E n \in 1..Len(Letters) : Letters[n] = chars[1]
    THEN CHOOSE n \in 1..Len(Letters) : Letters[n] = chars[1]
    ELSE chars

\* LiteralExpression.parseLiteral; a float is held by its numeral
parseLiteral(chars) ==
    IF isNumericLiteral(chars)
    THEN IF containsDecimal(chars) THEN Ok(NewFloatValue(chars))
         ELSE IF Head(chars) = "-"
         THEN Ok(NewIntegerValue(0 - ParseNat(Tail(chars), 0)))
         ELSE Ok(NewIntegerValue(ParseNat(chars, 0)))
    ELSE IF toLower(chars) = <<"t", "r", "u", "e">> THEN Ok(NewBooleanValue(TRUE))
    ELSE IF toLower(chars) = <<"f", "a", "l", "s", "e">>
    THEN Ok(NewBooleanValue(FALSE))
    ELSE Ok(NewTextValue(TextOf(chars)))

\* Executor.evaluateUnaryOp
evaluateUnaryOp(op, right) ==
    CASE op = "NOT" -> Ok(NewBooleanValue(~getValueAsBool(right)))
      [] op = "-" /\ right.t = TypeInteger -> Ok(NewIntegerValue(0 - right.v))
      [] op = "-" /\ right.t = TypeFloat -> Ok(NewFloatValue(0 - right.v))
      [] op = "-" -> Err("unary minus not supported")
      [] OTHER -> Err("unsupported unary operator")

\* Executor.evaluateExpressionForRow; withRow is "row != nil"
RECURSIVE Evaluate(_, _, _, _)
Evaluate(expr, schema, row, withRow) ==
    CASE expr.e = "lit" -> Ok(expr.v)
      [] expr.e = "literal" -> parseLiteral(expr.Value)
      [] expr.e = "unary" ->
            LET right == Evaluate(expr.Right, schema, row, withRow) IN
            IF right.err # "nil" THEN right
            ELSE evaluateUnaryOp(expr.Op, right.val)
      [] expr.e = "null" -> Ok(Null)
      [] expr.e = "col" ->
            IF ~withRow
            THEN Err("cannot evaluate column reference without row context")
            ELSE IF ColumnIndex(schema, expr.Column) < 0
            THEN Err("column not found")
            ELSE RowGet(row, ColumnIndex(schema, expr.Column))
      [] expr.e = "bin" ->
            LET left == Evaluate(expr.Left, schema, row, withRow) IN
            IF left.err # "nil" THEN left
            ELSE LET right == Evaluate(expr.Right, schema, row, withRow) IN
                 IF right.err # "nil" THEN right
                 ELSE evaluateBinaryOp(left.val, expr.Op, right.val)
      [] OTHER -> Err("unsupported expression type")

evaluateExpressionForRow(expr, schema, row) == Evaluate(expr, schema, row, TRUE)

\* Executor.evaluateExpression: evaluateExpressionForRow with a nil row
evaluateExpression(expr, schema) == Evaluate(expr, schema, <<>>, FALSE)

\* Executor.buildPredicate: an evaluation error and a value that is not a
\* boolean both count as false
buildPredicate(expr, schema, row) ==
    IF expr = NoExpr THEN TRUE
    ELSE LET r == evaluateExpressionForRow(expr, schema, row) IN
         r.err = "nil" /\ r.val.t = TypeBoolean /\ r.val.v = 1

\* the updater closure of executeUpdate, lines 343-359: the SET expressions
\* are evaluated without a row; an error leaves the row as it is; of two
\* clauses for one column the later one is kept in the updates map
RECURSIVE SetFrom(_, _, _, _)
SetFrom(setClauses, k, schema, row) ==
    IF k > Len(setClauses) THEN row
    ELSE LET colIdx == ColumnIndex(schema, setClauses[k].Column)
             val == evaluateExpression(setClauses[k].Value, schema).val
         IN SetFrom(setClauses, k + 1, schema,
                    IF colIdx >= 0 THEN Set(row, colIdx, val) ELSE row)

ApplySetClauses(setClauses, schema, row) ==
    IF \E k \in 1..Len(setClauses) :
            evaluateExpression(setClauses[k].Value, schema).err # "nil"
    THEN row
    ELSE SetFrom(setClauses, 1, schema, row)

(***************************************************************************)
(* Predicates and updaters as the executor builds them (buildPredicate,    *)
(* executeUpdate): a predicate is nil (every row), "col = val" or a WHERE  *)
(* expression; an updater stores a constant in one column or applies the   *)
(* SET clauses of a statement.                                             *)
(***************************************************************************)
NilPred == [kind |-> "nil", col |-> "", val |-> Null]
EqPred(c, v) == [kind |-> "eq", col |-> c, val |-> v]

\* the predicate buildPredicate makes of a WHERE expression
ExprPred(expr) == [kind |-> "expr", col |-> "", val |-> Null, expr |-> expr]

\* buildPredicate: an evaluation error (unknown column) counts as false
Matches(pred, schema, row) ==
    IF pred.kind = "nil" THEN TRUE
    ELSE IF pred.kind = "expr" THEN buildPredicate(pred.expr, schema, row)
    ELSE /\ InRange(row, ColumnIndex(schema, pred.col))
         /\ Equals(Get(row, ColumnIndex(schema, pred.col)), pred.val)

\* the updater closure of executeUpdate for one SET clause with a constant
ApplyUpdater(upd, schema, row) ==
    IF "SetClauses" \in DOMAIN upd
    THEN ApplySetClauses(upd.SetClauses, schema, row)
    ELSE IF ColumnIndex(schema, upd.col) >= 0
    THEN Set(row, ColumnIndex(schema, upd.col), upd.val)
    ELSE row

\* Table.Update, lines 316-326: a primary-key column changed
PKChanged(schema, newRow, oldRow) ==
    \E c \in 1..Len(schema) :
        /\ schema[c].PrimaryKey
        /\ ~Equals(Get(newRow, ColumnIndex(schema, schema[c].Name)),
                   Get(oldRow, ColumnIndex(schema, schema[c].Name)))

\* Table.Update, lines 328-346: a changed unique value equals another row's
UniqueCollision(schema, rows, i, newRow, oldRow) ==
    \E c \in 1..Len(schema) :
        LET colIndex == ColumnIndex(schema, schema[c].Name) IN
        /\ schema[c].Unique
        /\ ~Equals(Get(newRow, colIndex), Get(oldRow, colIndex))
        /\ \E j \in 0..(Len(rows) - 1) :
                j # i /\ Equals(Get(newRow, colIndex), Get(At(rows, j), colIndex))

\* Table.Update: the loop from row i on; the updater has already written the
\* row when a check rejects it, and nothing restores it
RECURSIVE UpdateFrom(_, _, _, _, _)
UpdateFrom(t, pred, upd, i, updated) ==
    IF i >= Len(t.Rows)
    THEN [t |-> t, n |-> updated, err |-> "nil", failed |-> -1]
    ELSE IF ~Matches(pred, t.Schema, At(t.Rows, i))
    THEN UpdateFrom(t, pred, upd, i + 1, updated)
    ELSE LET oldRow == At(t.Rows, i)
             newRow == ApplyUpdater(upd, t.Schema, oldRow)
             t2 == [t EXCEPT !.Rows[i + 1] = newRow]
         IN IF PKChanged(t.Schema, newRow, oldRow)
            THEN [t |-> t2, n |-> -1, err |-> "cannot update primary key",
                  failed |-> i]
            ELSE IF UniqueCollision(t.Schema, t2.Rows, i, newRow, oldRow)
            THEN [t |-> t2, n |-> -1, err |-> "unique constraint violation",
                  failed |-> i]
            ELSE UpdateFrom(t2, pred, upd, i + 1, updated + 1)

TableUpdate(t, pred, upd) == UpdateFrom(t, pred, upd, 0, 0)

\* Table.Delete, lines 364-369: the row's value is deleted from every index;
\* the error of BTree.Delete is dropped
UnindexRow(t, indexes, row) ==
    [c \in DOMAIN indexes |->
        LET colIndex == ColumnIndex(t.Schema, c) IN
        IF InRange(row, colIndex)
        THEN BTreeDelete(indexes[c], Get(row, colIndex)).root
        ELSE indexes[c]]

RECURSIVE DeleteFrom(_, _, _, _, _, _)
DeleteFrom(t, pred, i, newRows, indexes, deleted) ==
    IF i >= Len(t.Rows)
    THEN [t |-> [t EXCEPT !.Rows = newRows, !.Indexes = indexes], n |-> deleted]
    ELSE IF Matches(pred, t.Schema, At(t.Rows, i))
    THEN DeleteFrom(t, pred, i + 1, newRows,
                    UnindexRow(t, indexes, At(t.Rows, i)), deleted + 1)
    ELSE DeleteFrom(t, pred, i + 1, Append(newRows, At(t.Rows, i)), indexes, deleted)

\* Table.Delete: [t, n]
TableDelete(t, pred) == DeleteFrom(t, pred, 0, <<>>, t.Indexes, 0)

(***************************************************************************)
(* Catalog (database.go)                                                   *)
(***************************************************************************)
\* Database.CreateTable, lines 27-39: the new table with an index on every
\* primary-key column and every unique column
RECURSIVE IndexConstraints(_, _)
IndexConstraints(t, i) ==
    IF i >= Len(t.Schema) THEN t
    ELSE IF At(t.Schema, i).PrimaryKey \/ At(t.Schema, i).Unique
    THEN IndexConstraints(TableAddIndex(t, At(t.Schema, i).Name).t, i + 1)
    ELSE IndexConstraints(t, i + 1)

CreatedTable(name, schema) == IndexConstraints(NewTable(name, schema), 0)

(***************************************************************************)
(* Executor.executeInsert.  A statement is [Table, Columns, Values]; an    *)
(* expression of a VALUES tuple is a literal (the value it evaluates to)   *)
(* or a column reference, which has no row to be evaluated against.        *)
(***************************************************************************)
ColumnRef == [t |-> -2, v |-> 0]

\* evaluateExpression(expr, table) with row == nil
EvalErr(expr) == expr = ColumnRef

\* executeInsert, lines 287-292: the last expression listed for a column
ExprFor(columns, rowExprs, name) ==
    LET hits == {i \in 1..Len(columns) : columns[i] = name /\ i <= Len(rowExprs)}
    IN IF hits = {} THEN Nil
       ELSE rowExprs[CHOOSE i \in hits : \A j \in hits : j <= i]

\* executeInsert, lines 284-317: the expression that fills each schema slot
\* (Nil: no expression, the slot becomes NullValue)
SlotExprs(schema, columns, rowExprs) ==
    [i \in 1..Len(schema) |->
        IF Len(columns) > 0 THEN ExprFor(columns, rowExprs, schema[i].Name)
        ELSE IF i <= Len(rowExprs) THEN rowExprs[i] ELSE Nil]

RowValues(schema, columns, rowExprs) ==
    [i \in 1..Len(schema) |->
        IF SlotExprs(schema, columns, rowExprs)[i] = Nil THEN Null
        ELSE SlotExprs(schema, columns, rowExprs)[i]]

RowEvalFails(schema, columns, rowExprs) ==
    \E i \in 1..Len(schema) : EvalErr(SlotExprs(schema, columns, rowExprs)[i])

\* executeInsert: the loop over the VALUES tuples from tuple k on; the first
\* error returns, and the tuples inserted before it stay
RECURSIVE ExecuteInsertFrom(_, _, _, _)
ExecuteInsertFrom(t, stmt, k, affected) ==
    IF k > Len(stmt.Values)
    THEN [t |-> t, err |-> "nil", n |-> affected]
    ELSE IF RowEvalFails(t.Schema, stmt.Columns, stmt.Values[k])
    THEN [t |-> t, err |-> "evaluation error", n |-> affected]
    ELSE LET r == TableInsert(t, RowValues(t.Schema, stmt.Columns, stmt.Values[k]))
         IN IF r.err # "nil"
            THEN [t |-> r.t, err |-> r.err, n |-> affected]
            ELSE ExecuteInsertFrom(r.t, stmt, k + 1, affected + 1)

executeInsert(t, stmt) == ExecuteInsertFrom(t, stmt, 1, 0)

(***************************************************************************)
(* The state machine.                                                      *)
(*   db      the catalog: table name -> table                              *)
(*   last    the last call and what it returned                            *)
(*   maxIns  per table, the largest integer primary key stored by a        *)
(*           successful insert since the table was created or truncated    *)
(***************************************************************************)
NoCall == [op |-> "none", table |-> "", err |-> "nil", id |-> -1,
           pk |-> Null, auto |-> FALSE, failed |-> -1, n |-> 0,
           cols |-> <<>>]

\* CREATE TABLE users (id INTEGER PRIMARY KEY, email TEXT UNIQUE NOT NULL)
UsersSchema ==
    << NewColumn("id", TypeInteger, TRUE, FALSE, FALSE),
       NewColumn("email", TypeText, FALSE, TRUE, TRUE) >>

Init ==
    /\ db = [n \in {"users"} |-> CreatedTable(n, UsersSchema)]
    /\ last = NoCall
    /\ maxIns = [n \in {"users"} |-> 0]
    /\ NoAux

ColumnNames(t) == {t.Schema[i].Name : i \in 1..Len(t.Schema)}

\* a value of a type other than the column's
WrongTyped(col) ==
    IF col.Type = TypeText THEN NewIntegerValue(1) ELSE NewTextValue(1)

\* the values an input row offers for slot i: Null, the values of the
\* column's type, and one value of another type
SlotVals(t, i) ==
    {x \in Vals : x.t = TypeNull \/ x.t = t.Schema[i].Type}
    \cup {WrongTyped(t.Schema[i])}

TypedVals(t, i) == {x \in Vals : x.t = t.Schema[i].Type}

\* input rows of Table.Insert: short and full rows, and rows with one value
\* more than the schema has columns
InputRows(t) ==
    UNION {{r \in [1..k -> Vals \cup {NewIntegerValue(1), NewTextValue(1)}] :
                \A i \in 1..k : r[i] \in SlotVals(t, i)} : k \in 0..Len(t.Schema)}
    \cup {r \o <<Null>> : r \in {q \in [1..Len(t.Schema) -> Vals] :
                                    \A i \in 1..Len(t.Schema) : q[i] \in TypedVals(t, i)}}

\* the primary-key value a row supplies (Null when the slot is missing)
SuppliedPK(t, row) ==
    IF PkColIndex(t.Schema) # -1 /\ InRange(row, PkColIndex(t.Schema))
    THEN Get(row, PkColIndex(t.Schema)) ELSE Null

\* the integer primary key of the row a successful insert appended, or 0
StoredIntPK(t) ==
    LET pkColIndex == PkColIndex(t.Schema)
        row == At(t.Rows, Len(t.Rows) - 1)
    IN IF pkColIndex # -1 /\ Get(row, pkColIndex).t = TypeInteger
       THEN Get(row, pkColIndex).v ELSE 0

Max(a, b) == IF a >= b THEN a ELSE b

Insert(name, row) ==
    LET r == TableInsert(db[name], row) IN
    /\ db[name].RowIDSeq < MaxSeq
    /\ Len(db[name].Rows) < MaxRows
    /\ db' = [db EXCEPT ![name] = r.t]
    /\ last' = [NoCall EXCEPT !.op = "Insert", !.table = name, !.err = r.err,
                              !.id = r.id, !.pk = SuppliedPK(db[name], row),
                              !.auto = IsPKNull(db[name].Schema, row)]
    /\ maxIns' = IF r.err = "nil"
                 THEN [maxIns EXCEPT ![name] = Max(@, StoredIntPK(r.t))]
                 ELSE maxIns
    /\ UNCHANGED aux

Update(name, pred, upd) ==
    LET r == TableUpdate(db[name], pred, upd) IN
    /\ db' = [db EXCEPT ![name] = r.t]
    /\ last' = [NoCall EXCEPT !.op = "Update", !.table = name, !.err = r.err,
                              !.failed = r.failed, !.n = r.n]
    /\ UNCHANGED <<maxIns, aux>>

Delete(name, pred) ==
    LET r == TableDelete(db[name], pred) IN
    /\ db' = [db EXCEPT ![name] = r.t]
    /\ last' = [NoCall EXCEPT !.op = "Delete", !.table = name, !.n = r.n]
    /\ UNCHANGED <<maxIns, aux>>

Truncate(name) ==
    /\ db' = [db EXCEPT ![name] = TableTruncate(db[name])]
    /\ last' = [NoCall EXCEPT !.op = "Truncate", !.table = name]
    /\ maxIns' = [maxIns EXCEPT ![name] = 0]
    /\ UNCHANGED aux

AddIndex(name, columnName) ==
    LET r == TableAddIndex(db[name], columnName) IN
    /\ db' = [db EXCEPT ![name] = r.t]
    /\ last' = [NoCall EXCEPT !.op = "AddIndex", !.table = name, !.err = r.err]
    /\ UNCHANGED <<maxIns, aux>>

RemoveIndex(name, columnName) ==
    LET r == TableRemoveIndex(db[name], columnName) IN
    /\ db' = [db EXCEPT ![name] = r.t]
    /\ last' = [NoCall EXCEPT !.op = "RemoveIndex", !.table = name, !.err = r.err]
    /\ UNCHANGED <<maxIns, aux>>

\* the predicates and updaters the actions draw from: every row, or the rows
\* with a given primary key; a constant of the column's type, or Null
Preds(t) ==
    {NilPred} \cup {EqPred(t.Schema[PkColIndex(t.Schema) + 1].Name, v) : v \in IntVals}

Updaters(t) ==
    UNION {{[col |-> t.Schema[i].Name, val |-> v] :
                v \in {x \in Vals : x.t = TypeNull \/ x.t = t.Schema[i].Type}} :
            i \in 1..Len(t.Schema)}

Next ==
    \/ \E name \in DOMAIN db : \E row \in InputRows(db[name]) : Insert(name, row)
    \/ \E name \in DOMAIN db :
            \E pred \in Preds(db[name]), upd \in Updaters(db[name]) :
                Update(name, pred, upd)
    \/ \E name \in DOMAIN db : \E pred \in Preds(db[name]) : Delete(name, pred)
    \/ \E name \in DOMAIN db : Truncate(name)

Spec == Init /\ [][Next]_vars

\* the table operations with indexes added and removed at run time
NextIndex ==
    \/ \E name \in DOMAIN db : \E row \in InputRows(db[name]) : Insert(name, row)
    \/ \E name \in DOMAIN db : \E pred \in Preds(db[name]) : Delete(name, pred)
    \/ \E name \in DOMAIN db : Truncate(name)
    \/ \E name \in DOMAIN db : \E c \in ColumnNames(db[name]) : AddIndex(name, c)
    \/ \E name \in DOMAIN db : \E c \in ColumnNames(db[name]) : RemoveIndex(name, c)

SpecIndex == Init /\ [][NextIndex]_vars

(***************************************************************************)
(* INSERT statements through the executor.                                 *)
(***************************************************************************)
ExecInsert(name, stmt) ==
    LET r == executeInsert(db[name], stmt) IN
    /\ db[name].RowIDSeq < MaxSeq
    /\ Len(db[name].Rows) + Len(stmt.Values) <= MaxRows
    /\ db' = [db EXCEPT ![name] = r.t]
    /\ last' = [NoCall EXCEPT !.op = "ExecInsert", !.table = name, !.err = r.err,
                              !.n = r.n, !.cols = stmt.Columns]
    /\ UNCHANGED <<maxIns, aux>>

\* the VALUES tuples a statement offers: one expression per schema column
Tuples(t) ==
    {r \in [1..Len(t.Schema) -> Vals \cup {ColumnRef}] :
        \A i \in 1..Len(t.Schema) : r[i] \in TypedVals(t, i) \cup {Null, ColumnRef}}

\* INSERT INTO t VALUES (...), ... and INSERT INTO t (c1, ..., cn) VALUES ...
\* with the columns in schema order
Statements(t) ==
    {[Table |-> t.Name, Columns |-> cols, Values |-> vals] :
        cols \in {<<>>, [i \in 1..Len(t.Schema) |-> t.Schema[i].Name]},
        vals \in UNION {[1..k -> Tuples(t)] : k \in 1..MaxTuples}}

NextSQL ==
    \/ \E name \in DOMAIN db :
            \E stmt \in Statements(db[name]) : ExecInsert(name, stmt)
    \/ \E name \in DOMAIN db : \E pred \in Preds(db[name]) : Delete(name, pred)
    \/ \E name \in DOMAIN db : Truncate(name)

SpecSQL == Init /\ [][NextSQL]_vars

(***************************************************************************)
(* A catalog with a foreign key.                                           *)
(***************************************************************************)
\* Database.AddForeignKey: the referenced table and columns must exist
DbAddForeignKey(tables, tableName, fk) ==
    IF tableName \notin DOMAIN tables THEN tables
    ELSE IF fk.RefTable \notin DOMAIN tables THEN tables
    ELSE IF \E i \in 1..Len(fk.RefColumns) :
                ~HasColumn(tables[fk.RefTable].Schema, fk.RefColumns[i])
    THEN tables
    ELSE [tables EXCEPT ![tableName] = TableAddForeignKey(tables[tableName], fk).t]

\* CREATE TABLE parent (id INTEGER PRIMARY KEY)
ParentSchema == << NewColumn("id", TypeInteger, TRUE, FALSE, FALSE) >>

\* CREATE TABLE child (id INTEGER PRIMARY KEY, parent_id INTEGER)
ChildSchema ==
    << NewColumn("id", TypeInteger, TRUE, FALSE, FALSE),
       NewColumn("parent_id", TypeInteger, FALSE, FALSE, FALSE) >>

\* FOREIGN KEY (parent_id) REFERENCES parent (id) ON DELETE CASCADE
ChildFK ==
    [Columns |-> <<"parent_id">>, RefTable |-> "parent", RefColumns |-> <<"id">>,
     OnDelete |-> FKActionCascade, OnUpdate |-> FKActionNoAction]

InitFK ==
    /\ db = DbAddForeignKey(
                [n \in {"parent", "child"} |->
                    IF n = "parent" THEN CreatedTable(n, ParentSchema)
                    ELSE CreatedTable(n, ChildSchema)],
                "child", ChildFK)
    /\ last = NoCall
    /\ maxIns = [n \in {"parent", "child"} |-> 0]
    /\ NoAux

NextFK ==
    \/ \E name \in DOMAIN db : \E row \in InputRows(db[name]) : Insert(name, row)
    \/ \E name \in DOMAIN db : \E pred \in Preds(db[name]) : Delete(name, pred)
    \/ \E name \in DOMAIN db : Truncate(name)

SpecFK == InitFK /\ [][NextFK]_vars

(***************************************************************************)
(* Properties.                                                             *)
(***************************************************************************)
\* the row a successful insert appended
Appended(t) == At(t.Rows, Len(t.Rows) - 1)

\* the non-null values stored in a column
ColumnValues(t, columnName) ==
    {Get(t.Rows[r], ColumnIndex(t.Schema, columnName)) : r \in 1..Len(t.Rows)}
    \ {Null}

\* C1: no two stored rows hold the same non-null value in a primary-key
\* column or in a unique column, in every reachable state.
C1_NoDuplicateKeys ==
    \A name \in DOMAIN db :
        \A c \in 1..Len(db[name].Schema) :
            (db[name].Schema[c].PrimaryKey \/ db[name].Schema[c].Unique) =>
                \A i, j \in 1..Len(db[name].Rows) :
                    (i # j /\ db[name].Rows[i][c].t # TypeNull) =>
                        ~Equals(db[name].Rows[i][c], db[name].Rows[j][c])

\* C2: when Table.Update returns an error for a row, that row and every row
\* after it still hold their pre-update values.
C2_FailedUpdateKeepsRow ==
    [][(last'.op = "Update" /\ last'.err # "nil") =>
            \A i \in (last'.failed + 1)..Len(db[last'.table].Rows) :
                db'[last'.table].Rows[i] = db[last'.table].Rows[i]]_vars

\* C3: an INSERT statement that returns an error leaves the rows of the
\* target table as they were before the statement.
C3_FailedInsertStoresNothing ==
    [][(last'.op = "ExecInsert" /\ last'.err # "nil") =>
            db'[last'.table].Rows = db[last'.table].Rows]_vars

\* C4: RowIDSeq is strictly greater than every non-null integer primary-key
\* value stored in the table, in every reachable state.
C4_SeqAboveKeys ==
    \A name \in DOMAIN db :
        LET t == db[name] IN
        PkColIndex(t.Schema) # -1 =>
            \A r \in 1..Len(t.Rows) :
                Get(t.Rows[r], PkColIndex(t.Schema)).t = TypeInteger =>
                    t.RowIDSeq > Get(t.Rows[r], PkColIndex(t.Schema)).v

\* C5: after a Table.Insert that supplied the integer primary key v and was
\* accepted or rejected as a duplicate primary key, RowIDSeq is greater than v.
C5_SeqPastSuppliedKey ==
    (/\ last.op = "Insert"
     /\ last.pk.t = TypeInteger
     /\ last.err \in {"nil", "primary key violation"}) =>
        db[last.table].RowIDSeq > last.pk.v

\* C6: an accepted insert without a primary key stores RowIDSeq as the key,
\* which is greater than every integer key stored by an earlier successful
\* insert since the last truncate; an accepted insert of an explicit key
\* v >= RowIDSeq leaves RowIDSeq = v + 1, the next auto-assigned key.
C6_AutoKeyFollowsSequence ==
    [][(last'.op = "Insert" /\ last'.err = "nil") =>
            LET t == db[last'.table]
                t2 == db'[last'.table]
                key == Get(Appended(t2), PkColIndex(t.Schema))
            IN /\ last'.auto =>
                    /\ key = NewIntegerValue(t.RowIDSeq)
                    /\ key.v > maxIns[last'.table]
               /\ (~last'.auto /\ last'.pk.t = TypeInteger /\ last'.pk.v >= t.RowIDSeq) =>
                    t2.RowIDSeq = last'.pk.v + 1
               /\ maxIns'[last'.table] < t2.RowIDSeq]_vars

\* C6 witness: an insert without a key was accepted after an earlier insert
\* and got the key 2
C6_Witness ==
    /\ last.op = "Insert" /\ last.err = "nil" /\ last.auto
    /\ Len(db[last.table].Rows) = 2
    /\ Get(Appended(db[last.table]), PkColIndex(db[last.table].Schema)) = NewIntegerValue(2)

\* C7: for every indexed column, the keys the index holds are the non-null
\* values stored in that column.
C7_IndexKeysAreColumnValues ==
    \A name \in DOMAIN db :
        \A c \in DOMAIN db[name].Indexes :
            Keys(db[name].Indexes[c]) = ColumnValues(db[name], c)

\* C8: the payload an index stores for a key is the position of the row that
\* holds the key, and the id a successful insert returns is the position of
\* the appended row.
C8_IndexPayloadIsPosition ==
    /\ \A name \in DOMAIN db :
        \A c \in DOMAIN db[name].Indexes :
            \A e \in Entries(db[name].Indexes[c]) :
                /\ TableGetRow(db[name], e[2]).err = "nil"
                /\ Get(TableGetRow(db[name], e[2]).row,
                       ColumnIndex(db[name].Schema, c)) = e[1]
    /\ (last.op = "Insert" /\ last.err = "nil") =>
            /\ TableGetRow(db[last.table], last.id).err = "nil"
            /\ last.id = Len(db[last.table].Rows) - 1

\* C9: no stored row holds Null in a column declared NOT NULL.
C9_NoNullInNotNull ==
    \A name \in DOMAIN db :
        \A c \in 1..Len(db[name].Schema) :
            db[name].Schema[c].NotNull =>
                \A r \in 1..Len(db[name].Rows) :
                    db[name].Rows[r][c].t # TypeNull

\* the row has a referenced row for the foreign key, or only Null local values
Referenced(tables, t, row, fk) ==
    \/ \A i \in 1..Len(fk.Columns) :
            Get(row, ColumnIndex(t.Schema, fk.Columns[i])).t = TypeNull
    \/ \E r \in 1..Len(tables[fk.RefTable].Rows) :
            \A i \in 1..Len(fk.Columns) :
                Equals(Get(row, ColumnIndex(t.Schema, fk.Columns[i])),
                       Get(tables[fk.RefTable].Rows[r],
                           ColumnIndex(tables[fk.RefTable].Schema, fk.RefColumns[i])))

\* C10: Table.Insert accepts a row of a table with a foreign key only if the
\* local foreign-key values are all Null or the referenced row exists.
C10_InsertChecksForeignKey ==
    (last.op = "Insert" /\ last.err = "nil") =>
        \A f \in 1..Len(db[last.table].ForeignKeys) :
            Referenced(db, db[last.table], Appended(db[last.table]),
                       db[last.table].ForeignKeys[f])

(***************************************************************************)
(* A table with a DEFAULT column, filled through INSERT statements that    *)
(* list a part of the columns.                                             *)
(***************************************************************************)
\* executeCreateTable: the evaluated default expression is stored in the column
WithDefault(col, defaultValue) == [col EXCEPT !.Default = defaultValue]

\* CREATE TABLE tasks (id INTEGER PRIMARY KEY, status TEXT DEFAULT 'a')
TasksSchema ==
    << NewColumn("id", TypeInteger, TRUE, FALSE, FALSE),
       WithDefault(NewColumn("status", TypeText, FALSE, FALSE, FALSE),
                   NewTextValue(1)) >>

InitDefault ==
    /\ db = [n \in {"tasks"} |-> CreatedTable(n, TasksSchema)]
    /\ last = NoCall
    /\ maxIns = [n \in {"tasks"} |-> 0]
    /\ NoAux

\* the column lists of the statements: none, one column, or all in order
ColumnLists(t) ==
    {<<>>, [i \in 1..Len(t.Schema) |-> t.Schema[i].Name]}
    \cup {<<t.Schema[i].Name>> : i \in 1..Len(t.Schema)}

\* one expression per listed column (per schema column without a list), a
\* constant of the column's type or NULL
TuplesFor(t, cols) ==
    IF Len(cols) = 0 THEN {r \in Tuples(t) : \A i \in 1..Len(r) : r[i] # ColumnRef}
    ELSE {r \in [1..Len(cols) -> Vals] :
            \A i \in 1..Len(cols) :
                r[i] \in TypedVals(t, ColumnIndex(t.Schema, cols[i]) + 1) \cup {Null}}

ColumnStatements(t) ==
    UNION {{[Table |-> t.Name, Columns |-> cols, Values |-> vals] :
                vals \in UNION {[1..k -> TuplesFor(t, cols)] : k \in 1..MaxTuples}} :
            cols \in ColumnLists(t)}

NextDefault ==
    \/ \E name \in DOMAIN db :
            \E stmt \in ColumnStatements(db[name]) : ExecInsert(name, stmt)
    \/ \E name \in DOMAIN db : \E pred \in Preds(db[name]) : Delete(name, pred)
    \/ \E name \in DOMAIN db : Truncate(name)

SpecDefault == InitDefault /\ [][NextDefault]_vars

\* the rows a statement appended
AppendedRows(t, t2) == {t2.Rows[i] : i \in (Len(t.Rows) + 1)..Len(t2.Rows)}

\* the columns with a default that a column list leaves out
OmittedDefaults(t, cols) ==
    {i \in 1..Len(t.Schema) :
        /\ t.Schema[i].Default # Nil
        /\ \A j \in 1..Len(cols) : cols[j] # t.Schema[i].Name}

\* C11: a successful INSERT with a column list that omits a column with a
\* DEFAULT stores the default value, not Null, in that column of every row
\* it appends.
C11_OmittedColumnGetsDefault ==
    [][(last'.op = "ExecInsert" /\ last'.err = "nil" /\ Len(last'.cols) > 0) =>
            \A i \in OmittedDefaults(db[last'.table], last'.cols) :
                \A row \in AppendedRows(db[last'.table], db'[last'.table]) :
                    row[i] = db[last'.table].Schema[i].Default]_vars

\* C12: a Table.Insert call that returns an error (column count, type
\* mismatch, NOT NULL, duplicate primary key, duplicate unique value) leaves
\* the row vector and every index of the table as they were.
C12_FailedInsertKeepsRowsAndIndexes ==
    [][(last'.op = "Insert" /\ last'.err # "nil") =>
            /\ db'[last'.table].Rows = db[last'.table].Rows
            /\ db'[last'.table].Indexes = db[last'.table].Indexes]_vars

\* an insert was rejected for a duplicate key by a table that holds rows
C12_Witness ==
    /\ last.op = "Insert"
    /\ last.err = "primary key violation"
    /\ Len(db[last.table].Rows) > 0
    /\ \E c \in DOMAIN db[last.table].Indexes :
            Len(db[last.table].Indexes[c].keys) > 0

\* C13: every stored row has exactly as many values as the schema has
\* columns, whatever inserts (short, full, without key), updates, deletes and
\* truncates have run.
C13_RowLengthIsSchemaLength ==
    \A n \in DOMAIN db :
        \A i \in 1..Len(db[n].Rows) : Len(db[n].Rows[i]) = Len(db[n].Schema)

\* an insert of a row shorter than the schema, without a key, stored a row
C13_Witness ==
    /\ last.op = "Insert"
    /\ last.err = "nil"
    /\ last.auto
    /\ \E i \in 1..Len(db[last.table].Schema) :
            /\ db[last.table].Schema[i].NotNull
            /\ Appended(db[last.table])[i] = Null

(***************************************************************************)
(* Rows and values as heap objects.  A *Row holds a slice of Value         *)
(* pointers; t.Rows holds *Row pointers and an index holds the Value       *)
(* pointers of the rows it was fed.  An address is a position in objs.     *)
(*   heap.objs    the objects                                              *)
(*   heap.rows    t.Rows: the addresses of the stored rows                 *)
(*   heap.keys    the Value addresses held as keys by the indexes          *)
(*   heap.result  the rows the caller received from Select or GetRow       *)
(***************************************************************************)
\* the number of values the caller replaces in the rows of one result
MaxSets == 1

RowObj(values) == [kind |-> "Row", Values |-> values]
ValObj(v) == [kind |-> "Value", val |-> v]

\* NewRow over freshly allocated values: [objs, addr]
NewRow(objs, values) ==
    LET n == Len(objs)
        k == Len(values)
    IN [objs |-> objs \o [i \in 1..k |-> ValObj(values[i])]
                      \o <<RowObj([i \in 1..k |-> n + i])>>,
        addr |-> n + k + 1]

\* the values a row object points to
Deref(objs, r) == [i \in 1..Len(objs[r].Values) |-> objs[objs[r].Values[i]].val]

\* a variant of Row.Clone that copies the slice but not the values
RowCloneShallow(objs, r) ==
    [objs |-> Append(objs, RowObj(objs[r].Values)), addr |-> Len(objs) + 1]

\* Row.Clone: a new row over a Clone of every value
RowClone(objs, r) == NewRow(objs, Deref(objs, r))

\* Table.Select: the clones of the rows the predicate accepts, from row i on
RECURSIVE SelectFrom(_, _, _, _, _)
SelectFrom(objs, rows, pred, i, result) ==
    IF i > Len(rows) THEN [objs |-> objs, result |-> result]
    ELSE IF pred = NilPred \/ Matches(pred, UsersSchema, Deref(objs, rows[i]))
    THEN LET c == RowClone(objs, rows[i])
         IN SelectFrom(c.objs, rows, pred, i + 1, Append(result, c.addr))
    ELSE SelectFrom(objs, rows, pred, i + 1, result)

\* the table's objects: the caller's objects from earlier calls are garbage
Live(h) == SubSeq(h.objs, 1, h.base)

HeapSelect(pred) ==
    LET r == SelectFrom(Live(heap), heap.rows, pred, 1, <<>>) IN
    /\ heap' = [heap EXCEPT !.objs = r.objs, !.result = r.result]
    /\ last' = [NoCall EXCEPT !.op = "Select"]
    /\ UNCHANGED <<db, maxIns, threads, locks, bt>>

\* Table.GetRow
HeapGetRow(rowID) ==
    /\ IF rowID < 0 \/ rowID >= Len(heap.rows)
       THEN heap' = [heap EXCEPT !.objs = Live(heap), !.result = <<>>]
       ELSE LET c == RowClone(Live(heap), At(heap.rows, rowID))
            IN heap' = [heap EXCEPT !.objs = c.objs, !.result = <<c.addr>>]
    /\ last' = [NoCall EXCEPT !.op = "GetRow"]
    /\ UNCHANGED <<db, maxIns, threads, locks, bt>>

\* the caller replaces a value of a returned row: row.Set(index, value)
CallerSet(k, index, value) ==
    /\ Len(heap.objs) < heap.base + 3 * Len(heap.result) + MaxSets
    /\ heap' = [heap EXCEPT
            !.objs = Append([@ EXCEPT ![heap.result[k]].Values[index + 1] =
                                            Len(heap.objs) + 1],
                            ValObj(value))]
    /\ last' = [NoCall EXCEPT !.op = "Set"]
    /\ UNCHANGED <<db, maxIns, threads, locks, bt>>

\* the caller writes through the pointer of a value of a returned row:
\* v.(*IntegerValue).Value = n, v.(*TextValue).Value = s
CallerMutate(k, index, value) ==
    /\ heap.objs[heap.objs[heap.result[k]].Values[index + 1]].val.t = value.t
    /\ heap' = [heap EXCEPT
            !.objs[heap.objs[heap.result[k]].Values[index + 1]].val = value]
    /\ last' = [NoCall EXCEPT !.op = "Mutate"]
    /\ UNCHANGED <<db, maxIns, threads, locks, bt>>

\* the stored rows a users table can hold: distinct ids and emails
StoredRows ==
    {rs \in UNION {[1..k -> IntVals \X TextVals] : k \in 0..MaxRows} :
        \A i, j \in 1..Len(rs) :
            i # j => (rs[i][1] # rs[j][1] /\ rs[i][2] # rs[j][2])}

\* the heap after the rows were inserted: row k occupies three objects, two
\* values and the row, and both indexes hold the pointers of its values
RECURSIVE LoadRows(_, _, _)
LoadRows(objs, rs, k) ==
    IF k > Len(rs) THEN objs
    ELSE LoadRows(NewRow(objs, rs[k]).objs, rs, k + 1)

InitHeap ==
    /\ \E rs \in StoredRows :
            heap = [objs |-> LoadRows(<<>>, rs, 1),
                    base |-> 3 * Len(rs),
                    rows |-> [k \in 1..Len(rs) |-> 3 * k],
                    keys |-> [k \in 1..(2 * Len(rs)) |->
                                  3 * ((k + 1) \div 2) - 2 + ((k + 1) % 2)],
                    result |-> <<>>]
    /\ db = <<>> /\ last = NoCall /\ maxIns = <<>>
    /\ threads = <<>> /\ locks = <<>> /\ bt = <<>>

NextHeap ==
    \/ \E pred \in Preds([Schema |-> UsersSchema]) : HeapSelect(pred)
    \/ \E rowID \in 0..MaxRows : HeapGetRow(rowID)
    \/ \E k \in 1..Len(heap.result) : \E index \in 0..(Len(UsersSchema) - 1) :
            \E value \in Vals : CallerSet(k, index, value)
    \/ \E k \in 1..Len(heap.result) : \E index \in 0..(Len(UsersSchema) - 1) :
            \E value \in Vals : CallerMutate(k, index, value)

SpecHeap == InitHeap /\ [][NextHeap]_vars

\* what the table stores: the values of its rows and of its index keys
StoredView(h) ==
    [rows |-> [k \in 1..Len(h.rows) |-> Deref(h.objs, h.rows[k])],
     keys |-> [k \in 1..Len(h.keys) |-> h.objs[h.keys[k]].val]]

\* C14: rows returned by Select and GetRow share nothing with the table:
\* whatever the caller replaces or mutates in them, the stored rows and the
\* index keys keep their values.
C14_ReturnedRowsAreIsolated == [][StoredView(heap') = StoredView(heap)]_vars

\* the caller has changed a value of a returned row that the table holds too
C14_Witness ==
    \E k \in 1..Len(heap.result) : \E j \in 1..Len(heap.rows) :
        /\ Deref(heap.objs, heap.result[k])[1] = Deref(heap.objs, heap.rows[j])[1]
        /\ Deref(heap.objs, heap.result[k])[2] # Deref(heap.objs, heap.rows[j])[2]

(***************************************************************************)
(* Database.CascadeDelete.  The call works on the catalog in place; its    *)
(* state is                                                                *)
(*   tables  the catalog                                                   *)
(*   tail    per table, the slots of the row slice's backing array behind  *)
(*           len(Rows): append(Rows[:i], Rows[i+1:]...) shifts the rows in *)
(*           place and leaves the former last row in the freed slot, where *)
(*           a range loop started before the removal still reads it        *)
(*   panic   a run-time panic (index out of range) has ended the call      *)
(*   active  the calls of cascadeDeleteInternal in progress, each with the *)
(*           catalog it started on; a call that starts on the catalog and  *)
(*           row of a call in progress repeats it without end              *)
(*   overflow  the recursion has exhausted the stack, which ends the       *)
(*           program                                                       *)
(***************************************************************************)
\* the backing array a range loop over the table's rows reads
Backing(st, name) == st.tables[name].Rows \o st.tail[name]

\* cascadeDeleteInternal, lines 181-190: unindex the row and cut it out
RemoveRow(st, name, rowID, row) ==
    LET t == st.tables[name] IN
    IF rowID >= Len(t.Rows) THEN [st EXCEPT !.panic = TRUE]
    ELSE [st EXCEPT !.tables[name].Indexes = UnindexRow(t, t.Indexes, row),
                    !.tables[name].Rows = RemoveAt(t.Rows, rowID),
                    !.tail[name] = <<At(t.Rows, Len(t.Rows) - 1)>> \o @]

RECURSIVE cascadeDeleteInternal(_, _, _)
RECURSIVE CascadeRows(_, _, _, _, _, _)
RECURSIVE CascadeForeignKeys(_, _, _, _)

\* the range loops of lines 147-152 and 173-178 over the rows of table name:
\* n rows were there when the loop started; every row whose column colIndex
\* equals pkValue is handed to cascadeDeleteInternal with its loop index
CascadeRows(st, name, n, idx, pkValue, colIndex) ==
    IF st.panic \/ idx >= n THEN st
    ELSE LET row == At(Backing(st, name), idx) IN
         IF pkValue = Nil
         THEN [st EXCEPT !.panic = TRUE]
         ELSE IF InRange(row, colIndex) /\ Equals(pkValue, Get(row, colIndex))
         THEN CascadeRows(cascadeDeleteInternal(st, name, idx), name, n, idx + 1,
                          pkValue, colIndex)
         ELSE CascadeRows(st, name, n, idx + 1, pkValue, colIndex)

\* cascadeDeleteInternal, lines 165-179: for every ON DELETE CASCADE foreign
\* key of the row's table, the rows of the referenced table whose primary
\* key equals the row's foreign-key value
CascadeForeignKeys(st, tableName, row, f) ==
    LET table == st.tables[tableName] IN
    IF st.panic \/ f > Len(table.ForeignKeys) THEN st
    ELSE LET fk == table.ForeignKeys[f]
             refTable == st.tables[fk.RefTable]
             pkCols == PrimaryKeyColumns(refTable.Schema)
             colIndex == ColumnIndex(table.Schema, fk.Columns[1])
             pkValue == IF InRange(row, colIndex) THEN Get(row, colIndex) ELSE Nil
         IN IF fk.OnDelete = FKActionCascade /\ Cardinality(pkCols) = 1
            THEN CascadeForeignKeys(
                    CascadeRows(st, fk.RefTable, Len(refTable.Rows), 0, pkValue,
                                ColumnIndex(refTable.Schema,
                                    At(refTable.Schema, CHOOSE i \in pkCols : TRUE).Name)),
                    tableName, row, f + 1)
            ELSE CascadeForeignKeys(st, tableName, row, f + 1)

\* Database.cascadeDeleteInternal
cascadeDeleteInternal(st, tableName, rowID) ==
    IF st.panic THEN st
    ELSE IF rowID >= Len(st.tables[tableName].Rows)
    THEN [st EXCEPT !.panic = TRUE]
    ELSE IF <<st.tables, st.tail, tableName, rowID>> \in st.active
    THEN [st EXCEPT !.panic = TRUE, !.overflow = TRUE]
    ELSE LET row == At(st.tables[tableName].Rows, rowID)
             call == <<st.tables, st.tail, tableName, rowID>>
             st1 == CascadeForeignKeys([st EXCEPT !.active = @ \cup {call}],
                                       tableName, row, 1)
         IN IF st1.panic THEN st1
            ELSE RemoveRow([st1 EXCEPT !.active = st.active], tableName, rowID, row)

\* CascadeDelete, lines 141-152: the foreign keys of one other table
RECURSIVE CascadeInto(_, _, _, _, _)
CascadeInto(st, tableName, otherTableName, pkValue, f) ==
    LET otherTable == st.tables[otherTableName] IN
    IF st.panic \/ f > Len(otherTable.ForeignKeys) THEN st
    ELSE LET fk == otherTable.ForeignKeys[f] IN
         IF fk.RefTable = tableName /\ fk.OnDelete = FKActionCascade
         THEN CascadeInto(
                CascadeRows(st, otherTableName, Len(otherTable.Rows), 0, pkValue,
                            ColumnIndex(otherTable.Schema, fk.Columns[1])),
                tableName, otherTableName, pkValue, f + 1)
         ELSE CascadeInto(st, tableName, otherTableName, pkValue, f + 1)

\* CascadeDelete, lines 137-154: the other tables in the order the map
\* iteration yields them
RECURSIVE CascadeOver(_, _, _, _, _)
CascadeOver(st, tableName, order, k, pkValue) ==
    IF st.panic \/ k > Len(order) THEN st
    ELSE CascadeOver(CascadeInto(st, tableName, order[k], pkValue, 1),
                     tableName, order, k + 1, pkValue)

\* Database.CascadeDelete: [tables, err]
CascadeDelete(tables, tableName, rowID, order) ==
    IF tableName \notin DOMAIN tables
    THEN [tables |-> tables, err |-> "table not found"]
    ELSE IF Cardinality(PrimaryKeyColumns(tables[tableName].Schema)) # 1
    THEN [tables |-> tables, err |-> "single-column primary keys only"]
    ELSE IF TableGetRow(tables[tableName], rowID).err # "nil"
    THEN [tables |-> tables, err |-> "row not found"]
    ELSE LET table == tables[tableName]
             pkCol == At(table.Schema, CHOOSE i \in PrimaryKeyColumns(table.Schema) : TRUE)
             pkValue == Get(TableGetRow(table, rowID).row,
                            ColumnIndex(table.Schema, pkCol.Name))
             st == CascadeOver([tables |-> tables,
                                tail |-> [n \in DOMAIN tables |-> <<>>],
                                panic |-> FALSE, active |-> {},
                                overflow |-> FALSE],
                               tableName, order, 1, pkValue)
         IN [tables |-> st.tables,
             err |-> IF st.overflow THEN "fatal error: stack overflow"
                     ELSE IF st.panic THEN "panic: index out of range" ELSE "nil"]

\* the orders in which a map iteration can yield the names
Orders(names) ==
    {o \in [1..Cardinality(names) -> names] :
        \A i, j \in 1..Cardinality(names) : i # j => o[i] # o[j]}

CascadeDeleteCall(name, rowID, order) ==
    LET r == CascadeDelete(db, name, rowID, order) IN
    /\ db' = r.tables
    /\ last' = [NoCall EXCEPT !.op = "CascadeDelete", !.table = name,
                              !.err = r.err, !.id = rowID,
                              !.pk = IF TableGetRow(db[name], rowID).err = "nil"
                                     THEN Get(TableGetRow(db[name], rowID).row,
                                              PkColIndex(db[name].Schema))
                                     ELSE Null]
    /\ UNCHANGED <<maxIns, aux>>

NextCascade ==
    \/ \E name \in DOMAIN db : \E row \in InputRows(db[name]) : Insert(name, row)
    \/ \E name \in DOMAIN db : \E rowID \in 0..MaxRows :
            \E order \in Orders(DOMAIN db \ {name}) :
                CascadeDeleteCall(name, rowID, order)
    \/ \E name \in DOMAIN db : Truncate(name)

SpecCascade == InitFK /\ [][NextCascade]_vars

\* the rows of the other tables that reference, through an ON DELETE CASCADE
\* foreign key to table name, the primary-key value pk
Referencing(tables, name, pk) ==
    {<<n, i>> \in UNION {{<<m, j>> : j \in 1..Len(tables[m].Rows)} :
                            m \in DOMAIN tables \ {name}} :
        \E f \in 1..Len(tables[n].ForeignKeys) :
            LET fk == tables[n].ForeignKeys[f] IN
            /\ fk.RefTable = name
            /\ fk.OnDelete = FKActionCascade
            /\ Get(tables[n].Rows[i], ColumnIndex(tables[n].Schema, fk.Columns[1])) = pk}

\* C15: CascadeDelete(T, rowID) on an existing row returns normally (no
\* out-of-range row access) and afterwards no other table with an ON DELETE
\* CASCADE foreign key to T holds a row that references the row's key,
\* however many rows referenced it.
C15_CascadeRemovesReferencingRows ==
    [][(last'.op = "CascadeDelete" /\ last'.pk # Null) =>
            /\ last'.err = "nil"
            /\ Referencing(db', last'.table, last'.pk) = {}]_vars

(***************************************************************************)
(* Concurrent callers.  Every thread runs one operation at a time; an      *)
(* operation is the sequence of lock requests, lock releases and accesses  *)
(* its code performs.  sync.RWMutex: Lock waits until nobody holds the     *)
(* lock, RLock until no writer holds it.                                   *)
(*   threads[th]  the call in progress, the position in its program and    *)
(*                the row sets a join has read                             *)
(*   locks[l]     the writer (0: none) and the readers of lock l           *)
(* The rows an access reads or writes are read or written in that one      *)
(* step; an access that runs without the lock that protects its rows is    *)
(* what the properties below look for.  A lock scope that holds a single   *)
(* access and takes no other lock (GetTable, the methods of an index,      *)
(* AddIndex on a table not yet published) is one step.                     *)
(***************************************************************************)
NThreads == 2

\* a thread starts an insert only into a table with fewer rows than this
MaxThreadRows == 1

Threads == 1..NThreads

\* the three kinds of lock, by their place in the documented order
CatalogLevel == 1
TableLevel == 2
IndexLevel == 3

CatalogLock == <<CatalogLevel, "">>
TableLock(name) == <<TableLevel, name>>
IndexLock(name) == <<IndexLevel, name>>

TableNames == {"parent", "child", "extra"}
LockNames == {CatalogLock} \cup {TableLock(n) : n \in TableNames}
                           \cup {IndexLock(n) : n \in TableNames}

\* the instructions of a program
Lock(l) == [i |-> "Lock", l |-> l, x |-> TRUE, what |-> ""]
RLock(l) == [i |-> "Lock", l |-> l, x |-> FALSE, what |-> ""]
Unlock(l) == [i |-> "Unlock", l |-> l, x |-> FALSE, what |-> ""]
Do(what) == [i |-> "Do", l |-> CatalogLock, x |-> FALSE, what |-> what]
Scope(l, x, what) == [i |-> "Scope", l |-> l, x |-> x, what |-> what]

\* Database.GetTable
GetTable == <<Scope(CatalogLock, FALSE, "lookup")>>

\* the tables with an ON DELETE CASCADE foreign key to table name
CascadingInto(tables, name) ==
    {n \in DOMAIN tables \ {name} :
        \E f \in 1..Len(tables[n].ForeignKeys) :
            /\ tables[n].ForeignKeys[f].RefTable = name
            /\ tables[n].ForeignKeys[f].OnDelete = FKActionCascade}

\* a variant of Program that locks the table before it takes the catalog
\* lock
ProgramTableFirst(call) ==
    <<Lock(TableLock(call.table)), Scope(CatalogLock, FALSE, "lookup"),
      Unlock(TableLock(call.table))>>

\* the program of a call
Program(call) ==
    LET n == call.table IN
    CASE call.op = "Select" ->
            GetTable \o <<RLock(TableLock(n)), Do("select"), Unlock(TableLock(n))>>
      [] call.op = "SelfJoin" ->
            GetTable \o <<RLock(TableLock(n)), Do("left"), Unlock(TableLock(n))>>
            \o GetTable \o <<RLock(TableLock(n)), Do("right"), Unlock(TableLock(n))>>
      [] call.op = "Insert" ->
            GetTable \o <<Lock(TableLock(n)), Do("insert"),
                          Scope(IndexLock(n), TRUE, "indexInsert"),
                          Unlock(TableLock(n))>>
      [] call.op = "Update" ->
            GetTable \o <<Lock(TableLock(n)), Do("update"), Unlock(TableLock(n))>>
      [] call.op = "Delete" ->
            GetTable \o <<Lock(TableLock(n)), Do("delete"),
                          Scope(IndexLock(n), TRUE, "indexDelete"),
                          Unlock(TableLock(n))>>
      [] call.op = "CascadeDelete" ->
            <<Lock(CatalogLock), Do("lookup"),
              RLock(TableLock(n)), Do("getRow"), Unlock(TableLock(n)),
              Do("cascadeScan"),
              Scope(IndexLock(n), TRUE, "indexDelete"),
              Do("cascadeWrite"), Unlock(CatalogLock)>>
      [] call.op = "CreateTable" ->
            <<Lock(CatalogLock), Do("exists"),
              Scope(TableLock(n), TRUE, "addIndex"),
              Do("register"), Unlock(CatalogLock)>>

\* the tables whose rows, indexes, foreign keys or sequence an access reads
\* (r) and writes (w)
Touches(tables, call, what) ==
    LET n == call.table IN
    CASE what \in {"select", "left", "right", "getRow"} -> [r |-> {n}, w |-> {}]
      [] what \in {"insert", "update", "delete"} -> [r |-> {n}, w |-> {n}]
      [] what = "cascadeScan" -> [r |-> DOMAIN tables \ {n}, w |-> {}]
      [] what = "cascadeWrite" ->
            [r |-> CascadingInto(tables, n), w |-> CascadingInto(tables, n) \cup {n}]
      [] OTHER -> [r |-> {}, w |-> {}]

Idle == [op |-> "", table |-> "", arg |-> <<>>, pc |-> 0,
         left |-> <<>>, right |-> <<>>]

Free == [w |-> 0, r |-> {}]

\* the instruction a thread is about to execute
Instr(th) == Program(threads[th])[threads[th].pc]

Busy(th) == threads[th].pc > 0

Done(th) == threads[th].pc > Len(Program(threads[th]))

AtInstr(th, kind) == Busy(th) /\ ~Done(th) /\ Instr(th).i = kind

\* a variant of Exists that never finds the name
ExistsNever(tables, name) == FALSE

\* Database.CreateTable, line 23: _, exists := db.tables[name]
Exists(tables, name) == name \in DOMAIN tables

\* the effect of an access: the catalog, the position of the next
\* instruction (a failed check returns through the deferred unlock, the
\* last instruction) and the rows a join has read
Effect(th, order) ==
    LET c == threads[th]
        n == c.table
        next == c.pc + 1
        last_ == Len(Program(c))
        what == Instr(th).what
        same == [db |-> db, pc |-> next, left |-> c.left, right |-> c.right]
    IN CASE what = "left" -> [same EXCEPT !.left = db[n].Rows]
         [] what = "right" -> [same EXCEPT !.right = db[n].Rows]
         [] what = "insert" ->
                LET r == TableInsert(db[n], c.arg) IN
                [same EXCEPT !.db = [db EXCEPT ![n] = r.t],
                             !.pc = IF r.err = "nil" THEN next ELSE last_]
         [] what = "update" ->
                [same EXCEPT !.db = [db EXCEPT ![n] = TableUpdate(@, c.arg[1], c.arg[2]).t]]
         [] what = "delete" ->
                LET r == TableDelete(db[n], c.arg) IN
                [same EXCEPT !.db = [db EXCEPT ![n] = r.t],
                             !.pc = IF r.n > 0 THEN next ELSE last_]
         [] what = "cascadeScan" ->
                [same EXCEPT !.pc =
                    IF /\ TableGetRow(db[n], c.arg).err = "nil"
                       /\ \E m \in CascadingInto(db, n) : Len(db[m].Rows) > 0
                    THEN next ELSE last_]
         [] what = "cascadeWrite" ->
                [same EXCEPT !.db = CascadeDelete(db, n, c.arg, order).tables]
         [] what = "exists" ->
                [same EXCEPT !.pc = IF Exists(db, n) THEN last_ ELSE next]
         [] what = "register" ->
                [same EXCEPT !.db = [m \in DOMAIN db \cup {n} |->
                                        IF m = n THEN CreatedTable(n, ParentSchema)
                                        ELSE db[m]]]
         [] OTHER -> same

\* the calls a thread can start
Calls ==
    {[Idle EXCEPT !.op = op, !.table = "child"] : op \in {"Select", "SelfJoin"}}
    \cup {[Idle EXCEPT !.op = "Insert", !.table = "child",
                       !.arg = <<Null, NewIntegerValue(1)>>],
          [Idle EXCEPT !.op = "Update", !.table = "child",
                       !.arg = <<NilPred, [col |-> "parent_id",
                                           val |-> NewIntegerValue(1)]>>],
          [Idle EXCEPT !.op = "Delete", !.table = "child", !.arg = NilPred],
          [Idle EXCEPT !.op = "CascadeDelete", !.table = "parent", !.arg = 0]}
    \cup {[Idle EXCEPT !.op = "CreateTable", !.table = n] : n \in {"extra", "parent"}}

Start(th, call) ==
    /\ ~Busy(th)
    /\ call.op = "Insert" =>
            /\ db[call.table].RowIDSeq < MaxSeq
            /\ Len(db[call.table].Rows) < MaxThreadRows
    /\ threads' = [threads EXCEPT ![th] = [call EXCEPT !.pc = 1]]
    /\ UNCHANGED <<db, last, maxIns, heap, locks, bt>>

\* Lock and RLock return once the lock can be taken
Available(th) ==
    IF Instr(th).x
    THEN locks[Instr(th).l] = Free
    ELSE locks[Instr(th).l].w = 0 /\ th \notin locks[Instr(th).l].r

Acquire(th) ==
    /\ AtInstr(th, "Lock")
    /\ Available(th)
    /\ locks' = [locks EXCEPT ![Instr(th).l] =
                    IF Instr(th).x THEN [@ EXCEPT !.w = th]
                    ELSE [@ EXCEPT !.r = @ \cup {th}]]
    /\ threads' = [threads EXCEPT ![th].pc = @ + 1]
    /\ UNCHANGED <<db, last, maxIns, heap, bt>>

Release(th) ==
    /\ AtInstr(th, "Unlock")
    /\ locks' = [locks EXCEPT ![Instr(th).l] =
                    [w |-> IF @.w = th THEN 0 ELSE @.w, r |-> @.r \ {th}]]
    /\ threads' = [threads EXCEPT ![th].pc = @ + 1]
    /\ UNCHANGED <<db, last, maxIns, heap, bt>>

\* an access, on its own or inside the lock scope around it; a scope is
\* entered once its lock can be taken
Access(th, order) ==
    /\ IF AtInstr(th, "Scope") THEN Available(th) ELSE AtInstr(th, "Do")
    /\ LET e == Effect(th, order) IN
        /\ db' = e.db
        /\ threads' = [threads EXCEPT ![th].pc = e.pc, ![th].left = e.left,
                                      ![th].right = e.right]
    /\ UNCHANGED <<last, maxIns, heap, locks, bt>>

Return(th) ==
    /\ Busy(th)
    /\ Done(th)
    /\ threads' = [threads EXCEPT ![th] = Idle]
    /\ UNCHANGED <<db, last, maxIns, heap, locks, bt>>

\* parent and child as in InitFK, after INSERT INTO parent VALUES (1)
InitThreads ==
    /\ db = DbAddForeignKey(
                [n \in {"parent", "child"} |->
                    IF n = "parent"
                    THEN TableInsert(CreatedTable(n, ParentSchema),
                                     <<NewIntegerValue(1)>>).t
                    ELSE CreatedTable(n, ChildSchema)],
                "child", ChildFK)
    /\ last = NoCall
    /\ maxIns = <<>>
    /\ heap = <<>>
    /\ bt = <<>>
    /\ threads = [th \in Threads |-> Idle]
    /\ locks = [l \in LockNames |-> Free]

NextThreads ==
    \/ \E th \in Threads : \E call \in Calls : Start(th, call)
    \/ \E th \in Threads : Acquire(th)
    \/ \E th \in Threads : Release(th)
    \/ \E th \in Threads : \E order \in Orders(DOMAIN db \ {threads[th].table}) :
            Access(th, order)
    \/ \E th \in Threads : Return(th)

SpecThreads == InitThreads /\ [][NextThreads]_vars

\* thread th holds lock l: exclusively, or at least shared
HoldsExclusive(th, l) == locks[l].w = th
Holds(th, l) == locks[l].w = th \/ th \in locks[l].r

\* the tables thread th is about to read / to write
Reading(th) ==
    IF AtInstr(th, "Do") THEN Touches(db, threads[th], Instr(th).what).r ELSE {}
Writing(th) ==
    IF AtInstr(th, "Do") THEN Touches(db, threads[th], Instr(th).what).w ELSE {}

\* C16: a thread writes a table's rows, indexes, foreign keys or sequence
\* only while it holds the table's lock exclusively and reads them only
\* while it holds the lock at least shared; so no thread writes a table
\* while another thread reads or writes it.
C16_AccessesHoldTableLock ==
    /\ \A th \in Threads :
            /\ \A n \in Writing(th) : HoldsExclusive(th, TableLock(n))
            /\ \A n \in Reading(th) : Holds(th, TableLock(n))
    /\ \A th1, th2 \in Threads :
            th1 # th2 => Writing(th1) \cap (Reading(th2) \cup Writing(th2)) = {}

\* the locks thread th holds
Held(th) == {l \in LockNames : Holds(th, l)}

\* thread th is about to request a lock
Requesting(th) == AtInstr(th, "Lock") \/ AtInstr(th, "Scope")

\* the next step of thread th can be taken
CanStep(th) ==
    /\ Busy(th)
    /\ Requesting(th) => Available(th)

LockOrder ==
    \A th \in Threads :
        Requesting(th) =>
            \A l \in Held(th) : l # Instr(th).l /\ l[1] <= Instr(th).l[1]

NoDeadlock == (\E th \in Threads : Busy(th)) => \E th \in Threads : CanStep(th)

\* every step of a thread moves it forward in its program, which is finite
Progress ==
    \A th \in Threads :
        \/ threads'[th] = threads[th]
        \/ ~Busy(th) /\ threads'[th].pc = 1
        \/ Done(th) /\ threads'[th] = Idle
        \/ /\ Busy(th)
           /\ threads'[th].pc > threads[th].pc
           /\ Program(threads'[th]) = Program(threads[th])

C18_SelfJoinSeesOneState ==
    [][\A th \in Threads :
            (threads[th].op = "SelfJoin" /\ Done(th) /\ threads'[th] = Idle) =>
                threads[th].left = threads[th].right]_vars

\* thread th, inside CreateTable, takes a step
CreateTableStep(th) ==
    /\ threads[th].op = "CreateTable"
    /\ AtInstr(th, "Do") \/ AtInstr(th, "Scope")
    /\ threads'[th].pc # threads[th].pc

\* C31: CreateTable with a name of the catalog returns an error and leaves
\* the catalog and every table of it unchanged; a call registers its table
\* only while the name is absent, and a call that finds the name absent
\* registers it, so of concurrent calls with one name exactly one succeeds.
C31_CreateTableRejectsDuplicates ==
    [][\A th \in Threads :
            CreateTableStep(th) =>
                LET n == threads[th].table
                    what == Instr(th).what
                    errorReturn == Len(Program(threads[th]))
                IN /\ \A m \in DOMAIN db : m \in DOMAIN db' /\ db'[m] = db[m]
                   /\ (what = "exists" /\ n \in DOMAIN db) =>
                            db' = db /\ threads'[th].pc = errorReturn
                   /\ (what = "exists" /\ n \notin DOMAIN db) =>
                            threads'[th].pc = threads[th].pc + 1
                   /\ what = "addIndex" => threads'[th].pc = threads[th].pc + 1
                   /\ what = "register" =>
                            /\ n \notin DOMAIN db
                            /\ DOMAIN db' = DOMAIN db \cup {n}
                            /\ db'[n].Rows = <<>>]_vars

\* one thread has registered the table and the other, in CreateTable with
\* the same name, has found it and is about to return the error
C31_Witness ==
    \E th1, th2 \in Threads :
        /\ th1 # th2
        /\ threads[th1].op = "CreateTable"
        /\ threads[th2].op = "CreateTable"
        /\ threads[th1].table = "extra"
        /\ threads[th2].table = "extra"
        /\ "extra" \in DOMAIN db
        /\ Busy(th1)
        /\ Holds(th2, CatalogLock)
        /\ threads[th2].pc = Len(Program(threads[th2]))

(***************************************************************************)
(* A B-tree on its own.                                                    *)
(*   bt.root    the tree                                                   *)
(*   bt.stored  the payload each key was inserted with, for the keys       *)
(*              inserted and not deleted since                             *)
(*   bt.last    the last call and its error                                *)
(***************************************************************************)
\* keys 1..MaxKey: one more than a node holds, so that the root splits
MaxKey == 8
MaxPtr == 1

BtKeys == {NewIntegerValue(k) : k \in 1..MaxKey}

InitBTree ==
    /\ bt = [root |-> NewBTree, stored |-> <<>>,
             last |-> [op |-> "none", key |-> Null, err |-> "nil"]]
    /\ db = <<>> /\ last = NoCall /\ maxIns = <<>>
    /\ heap = <<>> /\ threads = <<>> /\ locks = <<>>

\* BTree.Insert of a key the tree does not hold
BtInsert(key, rowPtr) ==
    /\ key.v \notin DOMAIN bt.stored
    /\ key \notin Keys(bt.root)
    /\ bt' = [root |-> BTreeInsert(bt.root, key, rowPtr),
              stored |-> [k \in DOMAIN bt.stored \cup {key.v} |->
                            IF k = key.v THEN rowPtr ELSE bt.stored[k]],
              last |-> [op |-> "Insert", key |-> key, err |-> "nil"]]
    /\ UNCHANGED <<db, last, maxIns, heap, threads, locks>>

\* BTree.Delete; a panic unwinds the call and is reported as its error
BtDelete(key) ==
    LET r == BTreeDelete(bt.root, key) IN
    /\ bt' = [root |-> IF IsPanic(r.root) THEN bt.root ELSE r.root,
              stored |-> [k \in DOMAIN bt.stored \ {key.v} |-> bt.stored[k]],
              last |-> [op |-> "Delete", key |-> key, err |-> r.err]]
    /\ UNCHANGED <<db, last, maxIns, heap, threads, locks>>

NextBTreeInsert ==
    \E key \in BtKeys : \E rowPtr \in 0..MaxPtr : BtInsert(key, rowPtr)

SpecBTreeInsert == InitBTree /\ [][NextBTreeInsert]_vars

NextBTree ==
    \/ \E key \in BtKeys : BtInsert(key, 0)
    \/ \E key \in BtKeys : BtDelete(key)

SpecBTree == InitBTree /\ [][NextBTree]_vars

\* C19: after any inserts of distinct keys, Lookup finds every inserted key
\* with the payload it was inserted with and fails for every other key.
C19_LookupFindsInsertedKeys ==
    \A key \in BtKeys :
        LET r == BTreeLookup(bt.root, key) IN
        /\ ~r.panic
        /\ r.found <=> key.v \in DOMAIN bt.stored
        /\ r.found => r.ptr = bt.stored[key.v]

\* C20: Delete(k) on a tree that holds k returns no error and removes
\* exactly k (Lookup(k) fails, Count is one less, the other keys stay);
\* it returns "key not found" only when k is absent.
C20_DeleteRemovesExactlyTheKey ==
    [][bt'.last.op = "Delete" =>
            LET key == bt'.last.key IN
            IF key \in Keys(bt.root)
            THEN /\ bt'.last.err = "nil"
                 /\ ~BTreeLookup(bt'.root, key).found
                 /\ BTreeCount(bt'.root) = BTreeCount(bt.root) - 1
                 /\ Keys(bt'.root) = Keys(bt.root) \ {key}
            ELSE /\ bt'.last.err = "key not found"
                 /\ bt'.root = bt.root]_vars

(***************************************************************************)
(* BTree.ScanAll                                                           *)
(***************************************************************************)
\* BTree.scan: the payloads appended to *result; panic when
\* node.rowPtrs[i] is read past the end of the slice
RECURSIVE scan(_)
scan(node) ==
    LET failed == [panic |-> TRUE, ptrs |-> <<>>]
        below(c) == IF node.isLeaf THEN [panic |-> FALSE, ptrs |-> <<>>]
                    ELSE scan(At(node.children, c))
        RECURSIVE walk(_)
        walk(i) ==
            IF i >= Len(node.keys)
            THEN below(i)
            ELSE LET first == below(i) IN
                 IF first.panic \/ i >= Len(node.rowPtrs)
                 THEN failed
                 ELSE LET rest == walk(i + 1) IN
                      IF rest.panic THEN failed
                      ELSE [panic |-> FALSE,
                            ptrs |-> first.ptrs \o <<At(node.rowPtrs, i)>> \o rest.ptrs]
    IN walk(0)

BTreeScanAll(root) == scan(root)

\* the payloads bt.stored holds for the keys from k upward, by ascending key
RECURSIVE StoredFrom(_)
StoredFrom(k) ==
    IF k > MaxKey + 1 THEN <<>>
    ELSE (IF k \in DOMAIN bt.stored THEN <<bt.stored[k]>> ELSE <<>>)
         \o StoredFrom(k + 1)

\* C21: after any inserts of distinct keys, ScanAll completes and returns
\* one payload per stored key, in ascending order of the keys, whatever the
\* height of the tree.
C21_ScanAllReturnsPayloadsInKeyOrder ==
    /\ ~BTreeScanAll(bt.root).panic
    /\ BTreeScanAll(bt.root).ptrs = StoredFrom(1)

(***************************************************************************)
(* Value.Equals and Value.LessThan on their own: `last` holds the two      *)
(* operands of the last comparison and both results.                       *)
(***************************************************************************)
AllVals ==
    Vals \cup {NewFloatValue(n) : n \in 1..MaxFloat}
         \cup {NewBooleanValue(b) : b \in BOOLEAN}

InitValues == last = NoCall /\ db = <<>> /\ maxIns = <<>> /\ NoAux

Compare(a, b) ==
    /\ last' = [op |-> "Compare", a |-> a, b |-> b,
                equals |-> Equals(a, b), lessThan |-> LessThan(a, b)]
    /\ UNCHANGED <<db, maxIns, aux>>

NextValues == \E a \in AllVals : \E b \in AllVals : Compare(a, b)

SpecValues == InitValues /\ [][NextValues]_vars

\* C22: Equals and LessThan are both false when the operands have different
\* tags or when either operand is Null, also when both are Null.
C22_MixedAndNullComparisonsAreFalse ==
    (/\ last.op = "Compare"
     /\ last.a.t # last.b.t \/ last.a.t = TypeNull \/ last.b.t = TypeNull)
        => ~last.equals /\ ~last.lessThan

(***************************************************************************)
(* Executor.executeSelect.  A statement is                                 *)
(*   [Columns, Tables, Joins, Where, Limit, Offset]                        *)
(* with Tables a sequence of TableRef [Name, Alias], Joins a sequence of   *)
(* JoinClause [Type, Table, Alias, Conditions], and a column of Columns    *)
(* the ColumnRef the projection makes of its name (the part before the     *)
(* first dot is the table).  NoInt is the nil *int.                        *)
(***************************************************************************)
NoInt == -1

\* tableMap and offsetMap: lookup name -> schema and offset
NoTables == [m \in {} |-> <<>>]

Register(ctx, lookupName, schema, offset) ==
    [n \in DOMAIN ctx \cup {lookupName} |->
        IF n = lookupName THEN [Schema |-> schema, offset |-> offset] ELSE ctx[n]]

LookupName(name, alias) == IF alias # "" THEN alias ELSE name

\* Executor.resolveColumnIndex: [err, idx]
resolveColumnIndex(colRef, ctx) ==
    IF colRef.Table # ""
    THEN IF colRef.Table \notin DOMAIN ctx
         THEN [err |-> "unknown table or alias", idx |-> -1]
         ELSE IF ColumnIndex(ctx[colRef.Table].Schema, colRef.Column) < 0
         THEN [err |-> "column not found in table", idx |-> -1]
         ELSE [err |-> "nil",
               idx |-> ctx[colRef.Table].offset
                       + ColumnIndex(ctx[colRef.Table].Schema, colRef.Column)]
    ELSE LET having == {n \in DOMAIN ctx :
                            ColumnIndex(ctx[n].Schema, colRef.Column) >= 0}
         IN IF Cardinality(having) > 1
            THEN [err |-> "ambiguous column name", idx |-> -1]
            ELSE IF having = {}
            THEN [err |-> "column not found", idx |-> -1]
            ELSE LET n == CHOOSE x \in having : TRUE IN
                 [err |-> "nil",
                  idx |-> ctx[n].offset + ColumnIndex(ctx[n].Schema, colRef.Column)]

\* Executor.evaluateExpressionForJoinedRow
RECURSIVE evaluateExpressionForJoinedRow(_, _, _)
evaluateExpressionForJoinedRow(expr, row, ctx) ==
    CASE expr.e = "lit" -> Ok(expr.v)
      [] expr.e = "null" -> Ok(Null)
      [] expr.e = "col" ->
            LET r == resolveColumnIndex(expr, ctx) IN
            IF r.err # "nil" THEN Err(r.err) ELSE RowGet(row, r.idx)
      [] expr.e = "bin" ->
            LET left == evaluateExpressionForJoinedRow(expr.Left, row, ctx) IN
            IF left.err # "nil" THEN left
            ELSE LET right == evaluateExpressionForJoinedRow(expr.Right, row, ctx) IN
                 IF right.err # "nil" THEN right
                 ELSE evaluateBinaryOp(left.val, expr.Op, right.val)
      [] OTHER -> Err("unsupported expression type")

\* lines 143-151: every condition of the join evaluates to a true value
JoinMatches(conditions, combinedRow, ctx) ==
    \A k \in 1..Len(conditions) :
        LET r == evaluateExpressionForJoinedRow(conditions[k], combinedRow, ctx)
        IN r.err = "nil" /\ getValueAsBool(r.val)

\* lines 135-158: the combinations of leftRow with the target rows from j on
RECURSIVE JoinRight(_, _, _, _, _)
JoinRight(leftRow, targetRows, j, join, ctx) ==
    IF j > Len(targetRows) THEN <<>>
    ELSE (IF JoinMatches(join.Conditions, leftRow \o targetRows[j], ctx)
          THEN <<leftRow \o targetRows[j]>> ELSE <<>>)
         \o JoinRight(leftRow, targetRows, j + 1, join, ctx)

\* lines 132-170: the new rows for the intermediate rows from i on
RECURSIVE JoinLeft(_, _, _, _, _, _)
JoinLeft(intermediateRows, i, targetRows, targetColsLen, join, ctx) ==
    IF i > Len(intermediateRows) THEN <<>>
    ELSE LET leftRow == intermediateRows[i]
             matched == JoinRight(leftRow, targetRows, 1, join, ctx)
         IN (IF matched = <<>> /\ join.Type \in {"LEFT", "LEFT OUTER"}
             THEN <<leftRow \o [k \in 1..targetColsLen |-> Null]>>
             ELSE matched)
            \o JoinLeft(intermediateRows, i + 1, targetRows, targetColsLen, join, ctx)

\* lines 113-173: the joins from k on; [err, rows, ctx]
RECURSIVE ProcessJoins(_, _, _, _, _, _)
ProcessJoins(tables, joins, k, intermediateRows, ctx, currentOffset) ==
    IF k > Len(joins) THEN [err |-> "nil", rows |-> intermediateRows, ctx |-> ctx]
    ELSE IF joins[k].Table \notin DOMAIN tables
    THEN [err |-> "table not found", rows |-> <<>>, ctx |-> ctx]
    ELSE LET targetTable == tables[joins[k].Table]
             ctx2 == Register(ctx, LookupName(joins[k].Table, joins[k].Alias),
                              targetTable.Schema, currentOffset)
             targetColsLen == Len(targetTable.Schema)
         IN ProcessJoins(tables, joins, k + 1,
                         JoinLeft(intermediateRows, 1, targetTable.Rows,
                                  targetColsLen, joins[k], ctx2),
                         ctx2, currentOffset + targetColsLen)

\* lines 175-188: [err, rows]
RECURSIVE ApplyWhere(_, _, _, _)
ApplyWhere(where, rows, i, ctx) ==
    IF i > Len(rows) THEN [err |-> "nil", rows |-> <<>>]
    ELSE IF where = NoExpr
    THEN [err |-> "nil", rows |-> rows]
    ELSE LET r == evaluateExpressionForJoinedRow(where, rows[i], ctx) IN
         IF r.err # "nil" THEN [err |-> r.err, rows |-> <<>>]
         ELSE LET rest == ApplyWhere(where, rows, i + 1, ctx) IN
              IF rest.err # "nil" THEN rest
              ELSE [err |-> "nil",
                    rows |-> (IF getValueAsBool(r.val) THEN <<rows[i]>> ELSE <<>>)
                             \o rest.rows]

Star == Col("", "*")

\* the schema's column names as unqualified column references
SchemaColumns(schema) == [i \in 1..Len(schema) |-> Col("", schema[i].Name)]

RECURSIVE JoinColumns(_, _, _)
JoinColumns(tables, joins, k) ==
    IF k > Len(joins) THEN <<>>
    ELSE SchemaColumns(tables[joins[k].Table].Schema) \o JoinColumns(tables, joins, k + 1)

\* lines 196-216: result.Columns
ResultColumns(tables, stmt) ==
    IF stmt.Columns = <<Star>>
    THEN SchemaColumns(tables[stmt.Tables[1].Name].Schema)
         \o JoinColumns(tables, stmt.Joins, 1)
    ELSE stmt.Columns

\* lines 220-246, one row: [err, strings]; the value of Row.Get is used
\* without its error, and ToString on the nil of a failed Get panics
RECURSIVE ProjectRow(_, _, _, _)
ProjectRow(columns, c, row, ctx) ==
    IF c > Len(columns) THEN [err |-> "nil", strings |-> <<>>]
    ELSE LET r == resolveColumnIndex(columns[c], ctx) IN
         IF r.err # "nil" THEN [err |-> r.err, strings |-> <<>>]
         ELSE IF ~InRange(row, r.idx)
         THEN [err |-> "panic: nil pointer dereference", strings |-> <<>>]
         ELSE LET rest == ProjectRow(columns, c + 1, row, ctx) IN
              IF rest.err # "nil" THEN rest
              ELSE [err |-> "nil",
                    strings |-> <<ValueToString(Get(row, r.idx))>> \o rest.strings]

\* lines 218-248: [err, rows]
RECURSIVE Project(_, _, _, _)
Project(columns, rows, i, ctx) ==
    IF i > Len(rows) THEN [err |-> "nil", rows |-> <<>>]
    ELSE LET r == ProjectRow(columns, 1, rows[i], ctx) IN
         IF r.err # "nil" THEN [err |-> r.err, rows |-> <<>>]
         ELSE LET rest == Project(columns, rows, i + 1, ctx) IN
              IF rest.err # "nil" THEN rest
              ELSE [err |-> "nil", rows |-> <<r.strings>> \o rest.rows]

\* result.Rows[offset:end]
Slice(s, from, to) == [i \in 1..(to - from) |-> s[from + i]]

\* lines 251-268: LIMIT and OFFSET
LimitOffset(rows, limit, offset) ==
    IF limit # NoInt /\ Len(rows) > 0
    THEN LET off == IF offset # NoInt THEN offset ELSE 0
             end == IF off + limit > Len(rows) THEN Len(rows) ELSE off + limit
         IN IF off >= Len(rows) THEN <<>> ELSE Slice(rows, off, end)
    ELSE rows

\* Executor.executeSelect: [err, Columns, Rows]
executeSelect(tables, stmt) ==
    LET failed(msg) == [err |-> msg, Columns |-> <<>>, Rows |-> <<>>] IN
    IF Len(stmt.Tables) = 0 THEN failed("no table specified in SELECT")
    ELSE IF stmt.Tables[1].Name \notin DOMAIN tables THEN failed("table not found")
    ELSE LET primaryTable == tables[stmt.Tables[1].Name]
             ctx == Register(NoTables,
                             LookupName(stmt.Tables[1].Name, stmt.Tables[1].Alias),
                             primaryTable.Schema, 0)
             joined == ProcessJoins(tables, stmt.Joins, 1, primaryTable.Rows, ctx,
                                    Len(primaryTable.Schema))
         IN IF joined.err # "nil" THEN failed(joined.err)
            ELSE LET finalRows == ApplyWhere(stmt.Where, joined.rows, 1, joined.ctx) IN
                 IF finalRows.err # "nil" THEN failed(finalRows.err)
                 ELSE LET columns == ResultColumns(tables, stmt)
                          result == Project(columns, finalRows.rows, 1, joined.ctx)
                      IN IF result.err # "nil" THEN failed(result.err)
                         ELSE [err |-> "nil", Columns |-> columns,
                               Rows |-> LimitOffset(result.rows, stmt.Limit,
                                                    stmt.Offset)]

(***************************************************************************)
(* SELECT statements over parent (id) and child (id, parent_id), created   *)
(* without a foreign key.  `last` holds the statement and its result.      *)
(***************************************************************************)
MaxLimit == 3

InitSelect ==
    /\ db = [n \in {"parent", "child"} |->
                IF n = "parent" THEN CreatedTable(n, ParentSchema)
                ELSE CreatedTable(n, ChildSchema)]
    /\ last = NoCall
    /\ maxIns = [n \in {"parent", "child"} |-> 0]
    /\ NoAux

\* INSERT INTO parent VALUES (NULL) and INSERT INTO child VALUES (NULL, v):
\* the key is assigned by the table
SelectRows(name) ==
    IF name = "parent" THEN {<<Null>>}
    ELSE {<<Null, v>> : v \in {Null} \cup IntVals}

ExecSelect(stmt) ==
    LET r == executeSelect(db, stmt) IN
    /\ last' = [op |-> "Select", stmt |-> stmt, err |-> r.err,
                Columns |-> r.Columns, Rows |-> r.Rows]
    /\ UNCHANGED <<db, maxIns, aux>>

SelectFromChild ==
    [Columns |-> <<Star>>, Tables |-> <<[Name |-> "child", Alias |-> ""]>>,
     Joins |-> <<>>, Where |-> NoExpr, Limit |-> NoInt, Offset |-> NoInt]

\* SELECT * FROM child [LIMIT n] [OFFSET m]
SlicedStatements ==
    {[SelectFromChild EXCEPT !.Limit = n, !.Offset = m] :
        n \in {NoInt} \cup 0..MaxLimit, m \in {NoInt} \cup 0..MaxLimit}

OnParentId(l, r) == <<Bin(Col(l, "parent_id"), "=", Col(r, "parent_id"))>>

JoinTypes == {"INNER", "LEFT"}

\* SELECT * FROM child JOIN parent ON child.parent_id = parent.id
\* SELECT * FROM child JOIN child
\* SELECT * FROM child AS c JOIN child AS d ON c.parent_id = d.parent_id
\* SELECT c.id, c.parent_id, d.id, d.parent_id
\*     FROM child AS c JOIN child AS d ON c.parent_id = d.parent_id
\* SELECT child.id, child.parent_id, parent.id
\*     FROM child JOIN parent ON child.parent_id = parent.id
\* each as an inner and as a left join
JoinStatements ==
    UNION {{
        [SelectFromChild EXCEPT
            !.Joins = <<[Type |-> type, Table |-> "parent", Alias |-> "",
                         Conditions |-> <<Bin(Col("child", "parent_id"), "=",
                                              Col("parent", "id"))>>]>>],
        [SelectFromChild EXCEPT
            !.Joins = <<[Type |-> type, Table |-> "child", Alias |-> "",
                         Conditions |-> <<>>]>>],
        [SelectFromChild EXCEPT
            !.Tables = <<[Name |-> "child", Alias |-> "c"]>>,
            !.Joins = <<[Type |-> type, Table |-> "child", Alias |-> "d",
                         Conditions |-> OnParentId("c", "d")]>>],
        [SelectFromChild EXCEPT
            !.Columns = <<Col("c", "id"), Col("c", "parent_id"),
                          Col("d", "id"), Col("d", "parent_id")>>,
            !.Tables = <<[Name |-> "child", Alias |-> "c"]>>,
            !.Joins = <<[Type |-> type, Table |-> "child", Alias |-> "d",
                         Conditions |-> OnParentId("c", "d")]>>],
        [SelectFromChild EXCEPT
            !.Columns = <<Col("child", "id"), Col("child", "parent_id"),
                          Col("parent", "id")>>,
            !.Joins = <<[Type |-> type, Table |-> "parent", Alias |-> "",
                         Conditions |-> <<Bin(Col("child", "parent_id"), "=",
                                              Col("parent", "id"))>>]>>]
        } : type \in JoinTypes}

NextSelect ==
    \/ \E name \in DOMAIN db : \E row \in SelectRows(name) : Insert(name, row)
    \/ \E name \in DOMAIN db : Truncate(name)
    \/ \E stmt \in SlicedStatements \cup JoinStatements : ExecSelect(stmt)

SpecSelect == InitSelect /\ [][NextSelect]_vars

\* the rows of a result set, each value rendered by ToString
Rendered(rows) ==
    [i \in 1..Len(rows) |-> [c \in 1..Len(rows[i]) |-> ValueToString(rows[i][c])]]

\* C23: with LIMIT n and/or OFFSET m the result holds rows m .. m+n-1 of the
\* unsliced result in the same order (all rows from m on without LIMIT), and
\* no row when m is at least the number of unsliced rows.
C23_LimitOffsetSliceTheResult ==
    (last.op = "Select" /\ last.stmt.Joins = <<>> /\ last.err = "nil") =>
        LET unsliced == Rendered(db["child"].Rows)
            m == IF last.stmt.Offset = NoInt THEN 0 ELSE last.stmt.Offset
            n == IF last.stmt.Limit = NoInt THEN Len(unsliced) ELSE last.stmt.Limit
            to == IF m + n > Len(unsliced) THEN Len(unsliced) ELSE m + n
        IN last.Rows = IF m >= Len(unsliced) THEN <<>> ELSE Slice(unsliced, m, to)

\* the rows of the join before projection, as executeSelect builds them
JoinedRows(tables, stmt) ==
    ProcessJoins(tables, stmt.Joins, 1, tables[stmt.Tables[1].Name].Rows,
                 Register(NoTables,
                          LookupName(stmt.Tables[1].Name, stmt.Tables[1].Alias),
                          tables[stmt.Tables[1].Name].Schema, 0),
                 Len(tables[stmt.Tables[1].Name].Schema)).rows

\* C24: SELECT * over a primary table and joined tables succeeds and returns,
\* for every joined row, all columns of the primary table followed by all
\* columns of each joined table, also when tables share a column name or
\* one table is joined twice.
C24_StarReturnsAllJoinedColumns ==
    (/\ last.op = "Select"
     /\ last.stmt.Columns = <<Star>>
     /\ last.stmt.Joins # <<>>)
        => /\ last.err = "nil"
           /\ last.Rows = Rendered(JoinedRows(db, last.stmt))

\* the target rows whose column rcol holds the same non-null value as
\* column lcol of leftRow, in order, each appended to leftRow
RECURSIVE EquiMatches(_, _, _, _, _)
EquiMatches(leftRow, lcol, targetRows, rcol, j) ==
    IF j > Len(targetRows) THEN <<>>
    ELSE (IF /\ Get(leftRow, lcol).t # TypeNull
             /\ Get(leftRow, lcol) = Get(targetRows[j], rcol)
          THEN <<leftRow \o targetRows[j]>> ELSE <<>>)
         \o EquiMatches(leftRow, lcol, targetRows, rcol, j + 1)

\* the output of a left join on lcol = rcol: per left row its matches, or
\* the row once, padded with Null in the target columns
RECURSIVE LeftJoinOutput(_, _, _, _, _, _)
LeftJoinOutput(leftRows, lcol, targetRows, rcol, width, i) ==
    IF i > Len(leftRows) THEN <<>>
    ELSE LET found == EquiMatches(leftRows[i], lcol, targetRows, rcol, 1) IN
         (IF found = <<>> THEN <<leftRows[i] \o [k \in 1..width |-> Null]>>
          ELSE found)
         \o LeftJoinOutput(leftRows, lcol, targetRows, rcol, width, i + 1)

\* a LEFT JOIN statement with one condition "l.x = r.y", no WHERE, LIMIT or
\* OFFSET, that lists every column of both tables with its table
IsPlainLeftJoin(stmt) ==
    /\ Len(stmt.Joins) = 1
    /\ stmt.Joins[1].Type = "LEFT"
    /\ Len(stmt.Joins[1].Conditions) = 1
    /\ stmt.Columns # <<Star>>
    /\ Len(stmt.Columns) = Len(db[stmt.Tables[1].Name].Schema)
                           + Len(db[stmt.Joins[1].Table].Schema)

\* C25: a LEFT JOIN outputs every left row once per target row that
\* satisfies the ON condition, or exactly once padded with Null in the
\* target columns when none does, also when the left row's join column is
\* Null.
C25_LeftJoinKeepsEveryLeftRow ==
    (last.op = "Select" /\ IsPlainLeftJoin(last.stmt)) =>
        LET left == db[last.stmt.Tables[1].Name]
            target == db[last.stmt.Joins[1].Table]
            on == last.stmt.Joins[1].Conditions[1]
        IN /\ last.err = "nil"
           /\ last.Rows =
                Rendered(LeftJoinOutput(left.Rows,
                                        ColumnIndex(left.Schema, on.Left.Column),
                                        target.Rows,
                                        ColumnIndex(target.Schema, on.Right.Column),
                                        Len(target.Schema), 1))

(***************************************************************************)
(* UPDATE and DELETE statements through the executor, on the child table   *)
(* of InitSelect.  A statement is [Table, SetClauses, Where] or            *)
(* [Table, Where]; `last` holds the statement and what Execute returned.   *)
(***************************************************************************)
\* Executor.executeUpdate: [t, err, n]
executeUpdate(t, stmt) ==
    LET r == TableUpdate(t, ExprPred(stmt.Where), [SetClauses |-> stmt.SetClauses])
    IN [t |-> r.t, err |-> r.err, n |-> r.n]

\* Executor.executeDelete: [t, err, n]; Table.Delete has no error
executeDelete(t, stmt) ==
    LET r == TableDelete(t, ExprPred(stmt.Where))
    IN [t |-> r.t, err |-> "nil", n |-> r.n]

ExecUpdate(stmt) ==
    LET r == executeUpdate(db[stmt.Table], stmt) IN
    /\ db' = [db EXCEPT ![stmt.Table] = r.t]
    /\ last' = [op |-> "ExecUpdate", stmt |-> stmt, err |-> r.err, n |-> r.n]
    /\ UNCHANGED <<maxIns, aux>>

ExecDelete(stmt) ==
    LET r == executeDelete(db[stmt.Table], stmt) IN
    /\ db' = [db EXCEPT ![stmt.Table] = r.t]
    /\ last' = [op |-> "ExecDelete", stmt |-> stmt, err |-> r.err, n |-> r.n]
    /\ UNCHANGED <<maxIns, aux>>

One == Lit(NewIntegerValue(1))

\* WHERE id = 1, WHERE nosuch = 1, WHERE id / 0 = 1, WHERE 'a' + 1 = 1
IdIsOne == Bin(Col("", "id"), "=", One)
NoSuchColumn == Bin(Col("", "nosuch"), "=", One)
DivisionByZero == Bin(Bin(Col("", "id"), "/", Lit(NewIntegerValue(0))), "=", One)
TextPlusOne == Bin(Bin(Lit(NewTextValue(1)), "+", One), "=", One)

FailingWheres == {NoSuchColumn, DivisionByZero, TextPlusOne}

\* UPDATE child SET parent_id = <expr> [WHERE ...] with <expr> one of
\* parent_id + 1, 2, 1 / 0, 'a' + 1, nosuch; and SET parent_id = 1 with
\* each failing WHERE
UpdateStatements ==
    {[Table |-> "child", SetClauses |-> <<[Column |-> "parent_id", Value |-> e]>>,
      Where |-> w] :
        e \in {Bin(Col("", "parent_id"), "+", One), Lit(NewIntegerValue(2)),
               Bin(One, "/", Lit(NewIntegerValue(0))),
               Bin(Lit(NewTextValue(1)), "+", One), Col("", "nosuch")},
        w \in {NoExpr, IdIsOne}}
    \cup {[Table |-> "child", SetClauses |-> <<[Column |-> "parent_id", Value |-> One]>>,
           Where |-> w] : w \in FailingWheres}

\* DELETE FROM child [WHERE ...]
DeleteStatements ==
    {[Table |-> "child", Where |-> w] : w \in {NoExpr, IdIsOne} \cup FailingWheres}

NextUpdate ==
    \/ \E row \in SelectRows("child") : Insert("child", row)
    \/ \E stmt \in UpdateStatements : ExecUpdate(stmt)
    \/ \E stmt \in DeleteStatements : ExecDelete(stmt)

SpecUpdate == InitSelect /\ [][NextUpdate]_vars

\* the rows of the statement's table that its WHERE clause selects
Matched(stmt) ==
    {i \in 1..Len(db[stmt.Table].Rows) :
        buildPredicate(stmt.Where, db[stmt.Table].Schema, db[stmt.Table].Rows[i])}

\* C26: an UPDATE that succeeds stores in every matched row, for each SET
\* clause, the value of its expression computed from that row's values
\* before the statement.
C26_SetIsEvaluatedAgainstTheRow ==
    [][(last'.op = "ExecUpdate" /\ last'.err = "nil") =>
        LET stmt == last'.stmt
            t == db[stmt.Table]
        IN \A i \in Matched(stmt) : \A k \in 1..Len(stmt.SetClauses) :
            LET v == evaluateExpressionForRow(stmt.SetClauses[k].Value, t.Schema,
                                              t.Rows[i])
            IN v.err = "nil" =>
                Get(db'[stmt.Table].Rows[i],
                    ColumnIndex(t.Schema, stmt.SetClauses[k].Column)) = v.val]_vars

\* an evaluation of the statement's WHERE clause on a row of the table, or
\* of a SET expression for a matched row, ends in an error
RaisesError(op, stmt) ==
    LET t == db[stmt.Table] IN
    \/ /\ stmt.Where # NoExpr
       /\ \E i \in 1..Len(t.Rows) :
            evaluateExpressionForRow(stmt.Where, t.Schema, t.Rows[i]).err # "nil"
    \/ /\ op = "ExecUpdate"
       /\ Matched(stmt) # {}
       /\ \E k \in 1..Len(stmt.SetClauses) :
            evaluateExpression(stmt.SetClauses[k].Value, t.Schema).err # "nil"

\* C27: an UPDATE or DELETE during which the evaluation of a WHERE or SET
\* expression raises an error returns an error.
C27_EvaluationErrorsAreReturned ==
    [][(last'.op \in {"ExecUpdate", "ExecDelete"}
        /\ RaisesError(last'.op, last'.stmt)) => last'.err # "nil"]_vars

(***************************************************************************)
(* The lexer.  The input is a sequence of characters; "SP" and "LF" name   *)
(* the space and the newline, and EOF is the 0 that readChar stores past   *)
(* the end.  A token is [Type, Value]; its Position is left out.           *)
(***************************************************************************)
MaxInput == 4

TokenEOF == 0
TokenKeyword == 1
TokenIdentifier == 2
TokenLiteral == 3
TokenOperator == 4
TokenPunctuation == 5
TokenString == 6

EOF == "EOF"

Alphabet == {"a", "o", "n", "1", "SP", "LF", "-", ","}

\* the character at 0-based position p: l.ch after readChar
ChAt(input, p) == IF p >= Len(input) THEN EOF ELSE input[p + 1]

\* unicode.IsSpace, unicode.IsLetter and unicode.IsDigit on the alphabet
IsSpace(ch) == ch \in {"SP", "LF"}
isLetter(ch) == ch \in {"a", "b", "e", "n", "o", "r", "t", "u"}
isDigit(ch) == ch \in {Digits[i] : i \in 1..10}

\* isKeyword compares the upper-cased word with the keyword list; ON is the
\* keyword that the letters of the alphabet spell
isKeyword(ident) == ident = <<"o", "n">>

\* Lexer.skipWhitespace: the position after it
RECURSIVE skipWhitespace(_, _)
skipWhitespace(input, p) ==
    IF IsSpace(ChAt(input, p)) /\ ChAt(input, p) # "LF"
    THEN skipWhitespace(input, p + 1) ELSE p

\* the loop "for l.ch != '\n' && l.ch != 0 { l.readChar() }"
RECURSIVE ToEndOfLine(_, _)
ToEndOfLine(input, p) ==
    IF ChAt(input, p) # "LF" /\ ChAt(input, p) # EOF
    THEN ToEndOfLine(input, p + 1) ELSE p

\* Lexer.skipComment
skipComment(input, p) ==
    IF ChAt(input, p) = "-" /\ ChAt(input, p + 1) = "-"
    THEN skipWhitespace(input, ToEndOfLine(input, p))
    ELSE p

\* Lexer.readIdentifier and Lexer.readNumber: the position after the word
RECURSIVE IdentifierEnd(_, _)
IdentifierEnd(input, p) ==
    IF isLetter(ChAt(input, p)) \/ isDigit(ChAt(input, p))
    THEN IdentifierEnd(input, p + 1) ELSE p

RECURSIVE NumberEndFrom(_, _, _)
NumberEndFrom(input, p, hasDecimal) ==
    LET ch == ChAt(input, p) IN
    IF ~(isDigit(ch) \/ ch = ".") \/ (ch = "." /\ hasDecimal) THEN p
    ELSE NumberEndFrom(input, p + 1, hasDecimal \/ ch = ".")

NumberEnd(input, p) == NumberEndFrom(input, p, FALSE)

\* Lexer.readString, from the character after the opening quote: the
\* position of the closing quote (or of the end of the input); "\\" names
\* the backslash
RECURSIVE StringEnd(_, _)
StringEnd(input, p) ==
    LET ch == ChAt(input, p) IN
    IF ch = "'" \/ ch = EOF THEN p
    ELSE IF ch = "\\" /\ ChAt(input, p + 1) = "'" THEN StringEnd(input, p + 2)
    ELSE StringEnd(input, p + 1)

\* l.input[from:to]
Substring(input, from, to) == [i \in 1..(to - from) |-> input[from + i]]

\* Lexer.NextToken: the token and the position after it
NextToken(input, p0) ==
    LET p == skipComment(input, skipWhitespace(input, p0))
        ch == ChAt(input, p)
    IN CASE ch = EOF -> [Type |-> TokenEOF, Value |-> <<>>, pos |-> p]
         [] ch \in {"(", ")", ",", ".", ";"} ->
                [Type |-> TokenPunctuation, Value |-> <<ch>>, pos |-> p + 1]
         [] ch \in {"*", "="} ->
                [Type |-> TokenOperator, Value |-> <<ch>>, pos |-> p + 1]
         [] ch \in {"!", "<", ">"} ->
                IF ChAt(input, p + 1) = "="
                THEN [Type |-> TokenOperator, Value |-> <<ch, "=">>, pos |-> p + 2]
                ELSE [Type |-> TokenOperator, Value |-> <<ch>>, pos |-> p + 1]
         [] ch = "'" ->
                [Type |-> TokenString,
                 Value |-> Substring(input, p + 1, StringEnd(input, p + 1)),
                 pos |-> StringEnd(input, p + 1) + 1]
         [] isLetter(ch) ->
                LET end == IdentifierEnd(input, p)
                    ident == Substring(input, p, end)
                IN [Type |-> IF isKeyword(ident) THEN TokenKeyword
                             ELSE TokenIdentifier,
                    Value |-> ident, pos |-> end]
         [] isDigit(ch) ->
                [Type |-> TokenLiteral,
                 Value |-> Substring(input, p, NumberEnd(input, p)),
                 pos |-> NumberEnd(input, p)]
         [] OTHER -> [Type |-> TokenOperator, Value |-> <<ch>>, pos |-> p + 1]

\* Lexer.Tokenize: the tokens before EOF
RECURSIVE TokenizeFrom(_, _)
TokenizeFrom(input, p) ==
    LET tok == NextToken(input, p) IN
    IF tok.Type = TokenEOF THEN <<>>
    ELSE <<[Type |-> tok.Type, Value |-> tok.Value]>> \o TokenizeFrom(input, tok.pos)

Tokenize(input) == TokenizeFrom(input, 0)

Inputs == UNION {[1..k -> Alphabet] : k \in 0..MaxInput}

InitLexer == last = NoCall /\ db = <<>> /\ maxIns = <<>> /\ NoAux

\* one lexer reads one input
Lex(input) ==
    /\ last = NoCall
    /\ last' = [op |-> "Tokenize", input |-> input, tokens |-> Tokenize(input)]
    /\ UNCHANGED <<db, maxIns, aux>>

NextLexer == \E input \in Inputs : Lex(input)

SpecLexer == InitLexer /\ [][NextLexer]_vars

\* the input with the character at position i (1-based) replaced by chars
Replaced(input, i, chars) ==
    [k \in 1..(i - 1) |-> input[k]] \o chars
    \o [k \in 1..(Len(input) - i) |-> input[i + k]]

\* C28: the tokens do not depend on the whitespace between them: a space
\* replaced by a newline, or by a "--" comment that runs to the end of its
\* line, gives the same tokens.
C28_TokensIgnoreLineBreaksAndComments ==
    last.op = "Tokenize" =>
        \A i \in 1..Len(last.input) :
            last.input[i] = "SP" =>
                /\ Tokenize(Replaced(last.input, i, <<"LF">>)) = last.tokens
                /\ Tokenize(Replaced(last.input, i, <<"SP", "-", "-", "a", "LF">>))
                        = last.tokens

(***************************************************************************)
(* The parser of SELECT statements.  A statement is given by its words;    *)
(* the parser reads the tokens the lexer returns for them.  The statements *)
(* of the model hold no ORDER BY, LIMIT or OFFSET, and the parser is       *)
(* modelled on the rest.                                                   *)
(***************************************************************************)
MaxTables == 2
MaxJoins == 1

\* the keyword list of isKeyword
Keywords ==
    {"SELECT", "INSERT", "UPDATE", "DELETE", "CREATE", "DROP", "TABLE", "INTO",
     "VALUES", "SET", "FROM", "WHERE", "JOIN", "INNER", "LEFT", "RIGHT", "ON",
     "AND", "OR", "NOT", "NULL", "PRIMARY", "KEY", "UNIQUE", "DEFAULT",
     "FOREIGN", "REFERENCES", "CASCADE", "RESTRICT", "LIMIT", "OFFSET",
     "ORDER", "BY", "ASC", "DESC", "BEGIN", "COMMIT", "ROLLBACK", "TRANSACTION"}

\* the token NextToken returns for a word
WordToken(word) ==
    [Type |-> CASE word \in {",", ".", ";", "(", ")"} -> TokenPunctuation
                [] word \in {"*", "=", "!=", "<", "<=", ">", ">=", "+", "-", "/"}
                        -> TokenOperator
                [] word \in Keywords -> TokenKeyword
                [] OTHER -> TokenIdentifier,
     Value |-> word]

TokenizeWords(words) == [i \in 1..Len(words) |-> WordToken(words[i])]

\* Parser.currentToken, with pos the 0-based p.pos
currentToken(tokens, pos) ==
    IF pos >= Len(tokens) THEN [Type |-> TokenEOF, Value |-> ""]
    ELSE tokens[pos + 1]

IsKeywordToken(tok, keyword) == tok.Type = TokenKeyword /\ tok.Value = keyword

\* LiteralExpression{Value} with the characters of the token, and
\* UnaryExpression
Literal(chars) == [e |-> "literal", Value |-> chars]
Unary(op, r) == [e |-> "unary", Op |-> op, Right |-> r]

\* tok.Value == s; the value of a literal or a string is a sequence of
\* characters, and none of the model spells a punctuation mark
ValueIs(tok, s) == tok.Type \notin {TokenLiteral, TokenString} /\ tok.Value = s

IsOperatorToken(tok, ops) == tok.Type = TokenOperator /\ tok.Value \in ops

ParseFailed(msg, pos) == [err |-> msg, pos |-> pos, expr |-> NoExpr]
Parsed(expr, pos) == [err |-> "nil", pos |-> pos, expr |-> expr]

\* The functions of the recursive-descent expression parser, from the one of
\* the lowest precedence to the one of the highest; each parses its operands
\* with the next one
ParseLevels ==
    <<"parseOrExpression", "parseAndExpression", "parseNotExpression",
      "parseComparisonExpression", "parseAdditiveExpression",
      "parseMultiplicativeExpression", "parsePrimaryExpression">>

\* the function a parse function calls for its operands
OperandLevel(level) ==
    ParseLevels[(CHOOSE i \in 1..Len(ParseLevels) : ParseLevels[i] = level) + 1]

\* a loop condition that takes every arithmetic operator at both arithmetic
\* levels
ContinuesFlat(tok, level) ==
    CASE level = "parseOrExpression" -> IsKeywordToken(tok, "OR")
      [] level = "parseAndExpression" -> IsKeywordToken(tok, "AND")
      [] OTHER -> IsOperatorToken(tok, {"+", "-", "*", "/"})

\* the condition of the for loop of parseOrExpression, parseAndExpression,
\* parseAdditiveExpression and parseMultiplicativeExpression
Continues(tok, level) ==
    CASE level = "parseOrExpression" -> IsKeywordToken(tok, "OR")
      [] level = "parseAndExpression" -> IsKeywordToken(tok, "AND")
      [] level = "parseAdditiveExpression" -> IsOperatorToken(tok, {"+", "-"})
      [] level = "parseMultiplicativeExpression" -> IsOperatorToken(tok, {"*", "/"})

RECURSIVE parseLevel(_, _, _)
RECURSIVE parseLoop(_, _, _)

\* the for loop of a binary level after its first operand:
\* left = &BinaryExpression{Left: left, Op: tok.Value, Right: right}
parseLoop(tokens, left, level) ==
    LET tok == currentToken(tokens, left.pos) IN
    IF ~Continues(tok, level) THEN left
    ELSE LET right == parseLevel(tokens, left.pos + 1, OperandLevel(level)) IN
         IF right.err # "nil" THEN right
         ELSE parseLoop(tokens,
                        Parsed(Bin(left.expr, tok.Value, right.expr), right.pos),
                        level)

\* the parse function named by level, at position pos
parseLevel(tokens, pos, level) ==
    LET tok == currentToken(tokens, pos) IN
    CASE level = "parsePrimaryExpression" ->
           IF tok.Type = TokenIdentifier
           THEN IF ValueIs(currentToken(tokens, pos + 1), ".")
                THEN IF currentToken(tokens, pos + 2).Type = TokenIdentifier
                     THEN Parsed(Col(tok.Value, currentToken(tokens, pos + 2).Value),
                                 pos + 3)
                     ELSE Parsed(Col("", tok.Value), pos + 2)
                ELSE Parsed(Col("", tok.Value), pos + 1)
           ELSE IF tok.Type \in {TokenLiteral, TokenString}
           THEN Parsed(Literal(tok.Value), pos + 1)
           ELSE IF IsKeywordToken(tok, "NULL")
           THEN Parsed(NullLit, pos + 1)
           ELSE IF tok.Type \in {TokenKeyword, TokenPunctuation}
           THEN IF tok.Value = "("
                THEN LET inner == parseLevel(tokens, pos + 1, ParseLevels[1]) IN
                     IF inner.err # "nil" THEN inner
                     ELSE IF /\ currentToken(tokens, inner.pos).Type = TokenPunctuation
                             /\ currentToken(tokens, inner.pos).Value = ")"
                     THEN Parsed(inner.expr, inner.pos + 1)
                     ELSE ParseFailed("expected punctuation ')'", inner.pos)
                ELSE ParseFailed("unexpected token", pos)
           ELSE ParseFailed("expected expression", pos)
      [] level = "parseNotExpression" ->
           \* NOT takes one comparison as its operand
           LET isNot == IsKeywordToken(tok, "NOT")
               expr == parseLevel(tokens, IF isNot THEN pos + 1 ELSE pos,
                                  OperandLevel(level))
           IN IF isNot /\ expr.err = "nil"
              THEN Parsed(Unary("NOT", expr.expr), expr.pos)
              ELSE expr
      [] level = "parseComparisonExpression" ->
           \* any operator token is the comparison, and there is at most one
           LET left == parseLevel(tokens, pos, OperandLevel(level)) IN
           IF left.err # "nil" THEN left
           ELSE IF currentToken(tokens, left.pos).Type = TokenOperator
           THEN LET right == parseLevel(tokens, left.pos + 1, OperandLevel(level)) IN
                IF right.err # "nil" THEN right
                ELSE Parsed(Bin(left.expr, currentToken(tokens, left.pos).Value,
                                right.expr),
                            right.pos)
           ELSE left
      [] OTHER ->
           LET left == parseLevel(tokens, pos, OperandLevel(level)) IN
           IF left.err # "nil" THEN left ELSE parseLoop(tokens, left, level)

\* Parser.parseExpression
parseExpression(tokens, pos) == parseLevel(tokens, pos, "parseOrExpression")

\* the optional alias after a table name, in parseTableList and parseJoin
parseAlias(tokens, pos) ==
    IF IsKeywordToken(currentToken(tokens, pos), "AS")
    THEN IF currentToken(tokens, pos + 1).Type = TokenIdentifier
         THEN [err |-> "nil", pos |-> pos + 2,
               Alias |-> currentToken(tokens, pos + 1).Value]
         ELSE [err |-> "expected alias", pos |-> pos + 1, Alias |-> ""]
    ELSE IF currentToken(tokens, pos).Type = TokenIdentifier
    THEN [err |-> "nil", pos |-> pos + 1, Alias |-> currentToken(tokens, pos).Value]
    ELSE [err |-> "nil", pos |-> pos, Alias |-> ""]

\* Parser.parseTableList
RECURSIVE parseTableList(_, _, _)
parseTableList(tokens, pos, tables) ==
    LET tok == currentToken(tokens, pos) IN
    IF tok.Type # TokenIdentifier
    THEN [err |-> "expected table name", pos |-> pos, tables |-> <<>>]
    ELSE LET alias == parseAlias(tokens, pos + 1)
             found == Append(tables, [Name |-> tok.Value, Alias |-> alias.Alias])
         IN IF alias.err # "nil"
            THEN [err |-> alias.err, pos |-> alias.pos, tables |-> <<>>]
            ELSE IF currentToken(tokens, alias.pos).Value = ","
            THEN parseTableList(tokens, alias.pos + 1, found)
            ELSE [err |-> "nil", pos |-> alias.pos, tables |-> found]

NoJoin == [Type |-> "", Table |-> "", Alias |-> "", Conditions |-> <<>>]

\* Parser.parseJoin
parseJoin(tokens, pos) ==
    LET tok == currentToken(tokens, pos)
        failed(msg) == [err |-> msg, pos |-> pos, join |-> NoJoin]
    IN
    IF tok.Type # TokenKeyword THEN failed("expected join type")
    ELSE
    LET outer == tok.Value \in {"LEFT", "RIGHT"}
        p1 == IF outer THEN pos + 2 ELSE pos + 1
        tableTok == currentToken(tokens, p1)
        alias == parseAlias(tokens, p1 + 1)
        cond == parseExpression(tokens, alias.pos + 1)
    IN
    IF outer /\ ~IsKeywordToken(currentToken(tokens, pos + 1), "JOIN")
    THEN failed("expected keyword JOIN")
    ELSE IF tableTok.Type # TokenIdentifier THEN failed("expected table name")
    ELSE IF alias.err # "nil" THEN failed("expected table alias")
    ELSE IF ~IsKeywordToken(currentToken(tokens, alias.pos), "ON")
    THEN failed("expected keyword ON")
    ELSE IF cond.err # "nil" THEN failed(cond.err)
    ELSE [err |-> "nil", pos |-> cond.pos,
          join |-> [Type |-> tok.Value, Table |-> tableTok.Value,
                    Alias |-> alias.Alias, Conditions |-> <<cond.expr>>]]

NoStatement == [Tables |-> <<>>, Joins |-> <<>>, Where |-> NoExpr]

\* the loop of parseSelect over the clauses after the table list; a keyword
\* that starts no clause leaves the switch, not the loop, which then never
\* ends ("hang")
RECURSIVE parseClauses(_, _, _)
parseClauses(tokens, pos, stmt) ==
    LET tok == currentToken(tokens, pos) IN
    IF tok.Type = TokenEOF \/ (tok.Type = TokenPunctuation /\ tok.Value = ";")
    THEN [err |-> "nil", stmt |-> stmt]
    ELSE IF tok.Type # TokenKeyword THEN [err |-> "nil", stmt |-> stmt]
    ELSE IF tok.Value = "WHERE"
    THEN LET where == parseExpression(tokens, pos + 1) IN
         IF where.err # "nil" THEN [err |-> where.err, stmt |-> NoStatement]
         ELSE parseClauses(tokens, where.pos, [stmt EXCEPT !.Where = where.expr])
    ELSE IF tok.Value \in {"JOIN", "INNER", "LEFT", "RIGHT"}
    THEN LET j == parseJoin(tokens, pos) IN
         IF j.err # "nil" THEN [err |-> j.err, stmt |-> NoStatement]
         ELSE parseClauses(tokens, j.pos,
                           [stmt EXCEPT !.Joins = Append(@, j.join)])
    ELSE [err |-> "hang", stmt |-> NoStatement]

\* Parser.parseSelect for SELECT *
parseSelect(tokens) ==
    LET tables == parseTableList(tokens, 3, <<>>) IN
    IF ~IsKeywordToken(currentToken(tokens, 0), "SELECT")
    THEN [err |-> "expected keyword SELECT", stmt |-> NoStatement]
    ELSE IF currentToken(tokens, 1).Value # "*"
    THEN [err |-> "expected column name or *", stmt |-> NoStatement]
    ELSE IF ~IsKeywordToken(currentToken(tokens, 2), "FROM")
    THEN [err |-> "expected keyword FROM", stmt |-> NoStatement]
    ELSE IF tables.err # "nil" THEN [err |-> tables.err, stmt |-> NoStatement]
    ELSE parseClauses(tokens, tables.pos,
                      [NoStatement EXCEPT !.Tables = tables.tables])

\* the statements of the model: each table of FROM and of JOIN is written
\* plain, as "name alias" or as "name AS alias"
AliasForms == {"none", "implicit", "AS"}
WrittenNames == {"users", "orders"}
JoinWords == {<<"JOIN">>, <<"INNER", "JOIN">>, <<"LEFT", "JOIN">>, <<"RIGHT", "JOIN">>}

Written ==
    [Name : WrittenNames, Alias : {"u"}, form : AliasForms]

TableWords(w) ==
    CASE w.form = "none" -> <<w.Name>>
      [] w.form = "implicit" -> <<w.Name, w.Alias>>
      [] w.form = "AS" -> <<w.Name, "AS", w.Alias>>

RECURSIVE FromWords(_)
FromWords(from) ==
    IF Len(from) = 1 THEN TableWords(from[1])
    ELSE TableWords(from[1]) \o <<",">> \o FromWords(Tail(from))

RECURSIVE JoinsWords(_)
JoinsWords(joins) ==
    IF joins = <<>> THEN <<>>
    ELSE joins[1].words \o TableWords(joins[1].table)
         \o <<"ON", "id", "=", "user_id">> \o JoinsWords(Tail(joins))

StatementWords(from, joins) ==
    <<"SELECT", "*", "FROM">> \o FromWords(from) \o JoinsWords(joins)

InitParser == last = NoCall /\ db = <<>> /\ maxIns = <<>> /\ NoAux

\* one parser reads one statement
ParseSelect(from, joins) ==
    /\ last = NoCall
    /\ LET res == parseSelect(TokenizeWords(StatementWords(from, joins))) IN
       last' = [op |-> "Parse", from |-> from, joins |-> joins,
                err |-> res.err, stmt |-> res.stmt]
    /\ UNCHANGED <<db, maxIns, aux>>

NextParser ==
    \E from \in UNION {[1..k -> Written] : k \in 1..MaxTables},
       joins \in UNION {[1..k -> [words : JoinWords, table : Written]]
                            : k \in 0..MaxJoins} :
        ParseSelect(from, joins)

SpecParser == InitParser /\ [][NextParser]_vars

\* C29: a table written "name AS alias", in FROM or in a JOIN, parses, and
\* the statement records that alias for that table.
C29_AsAliasIsRecorded ==
    last.op = "Parse" =>
        /\ \A i \in 1..Len(last.from) :
            last.from[i].form = "AS" =>
                /\ last.err = "nil"
                /\ Len(last.stmt.Tables) >= i
                /\ last.stmt.Tables[i]
                    = [Name |-> last.from[i].Name, Alias |-> last.from[i].Alias]
        /\ \A j \in 1..Len(last.joins) :
            last.joins[j].table.form = "AS" =>
                /\ last.err = "nil"
                /\ Len(last.stmt.Joins) >= j
                /\ last.stmt.Joins[j].Table = last.joins[j].table.Name
                /\ last.stmt.Joins[j].Alias = last.joins[j].table.Alias

(***************************************************************************)
(* Truncate.                                                               *)
(***************************************************************************)
\* C30: Truncate leaves the table with no rows, RowIDSeq 1 and an empty
\* index for exactly the columns indexed before, and keeps the schema and
\* the foreign keys; an insert without a primary key that follows it and
\* succeeds stores key 1.
C30_TruncateEmptiesAndResets ==
    [][/\ last'.op = "Truncate" =>
            LET before == db[last'.table]
                after == db'[last'.table]
            IN /\ after.Rows = <<>>
               /\ after.RowIDSeq = 1
               /\ DOMAIN after.Indexes = DOMAIN before.Indexes
               /\ \A c \in DOMAIN after.Indexes : after.Indexes[c] = NewBTree
               /\ after.Schema = before.Schema
               /\ after.ForeignKeys = before.ForeignKeys
               /\ \A n \in DOMAIN db \ {last'.table} : db'[n] = db[n]
       /\ (/\ last.op = "Truncate"
           /\ last'.op = "Insert"
           /\ last'.table = last.table
           /\ last'.auto
           /\ last'.err = "nil") =>
            /\ Len(db'[last.table].Rows) = 1
            /\ SuppliedPK(db'[last.table], db'[last.table].Rows[1])
                    = NewIntegerValue(1)
      ]_vars

\* a table with an index added at run time has just been truncated
C30_Witness ==
    /\ last.op = "Truncate"
    /\ db[last.table].Rows = <<>>
    /\ Cardinality(DOMAIN db[last.table].Indexes) >= 2

(***************************************************************************)
(* The shape of the B-tree.                                                *)
(***************************************************************************)
\* the keys of node and of every node below it are strictly ascending, and
\* every key of an internal node separates the keys of the children on its
\* two sides
RECURSIVE KeysOrdered(_)
KeysOrdered(node) ==
    /\ \A i \in 1..(Len(node.keys) - 1) : LessThan(node.keys[i], node.keys[i + 1])
    /\ ~node.isLeaf =>
        /\ \A i \in 1..Len(node.keys) :
            /\ i <= Len(node.children) =>
                \A k \in Keys(node.children[i]) : LessThan(k, node.keys[i])
            /\ i + 1 <= Len(node.children) =>
                \A k \in Keys(node.children[i + 1]) : LessThan(node.keys[i], k)
        /\ \A c \in 1..Len(node.children) : KeysOrdered(node.children[c])

\* keys 1..MaxSplitKey: enough to fill a child of the root after the root
\* has split, and to insert one key more
MaxSplitKey == 12

NextBTreeSplit ==
    \E key \in {NewIntegerValue(k) : k \in 1..MaxSplitKey} : BtInsert(key, 0)

SpecBTreeSplit == InitBTree /\ [][NextBTreeSplit]_vars

\* C32: after any inserts of distinct keys, the keys of every node are
\* strictly ascending, and for every internal node the keys of children[i]
\* are less than keys[i] and the keys of children[i+1] are greater.
C32_KeysAreOrdered == KeysOrdered(bt.root)

\* every node at or below node holds at most 2t-1 keys, an internal node
\* one child more than keys, a node other than the root at least t-1 keys,
\* and a leaf one row pointer per key
RECURSIVE NodeSizes(_, _)
NodeSizes(node, isRoot) ==
    /\ Len(node.keys) <= 2 * defaultOrder - 1
    /\ ~isRoot => Len(node.keys) >= defaultOrder - 1
    /\ node.isLeaf => Len(node.rowPtrs) = Len(node.keys)
    /\ ~node.isLeaf =>
        /\ Len(node.children) = Len(node.keys) + 1
        /\ Len(node.children) <= 2 * defaultOrder
        /\ \A c \in 1..Len(node.children) : NodeSizes(node.children[c], FALSE)

\* inserts and deletes of the keys 1..MaxSplitKey in any order; bt.stored
\* and the key of bt.last are not kept
ShapeInsert(key) ==
    /\ key \notin Keys(bt.root)
    /\ bt' = [root |-> BTreeInsert(bt.root, key, 0), stored |-> <<>>,
              last |-> [op |-> "Insert", key |-> Null, err |-> "nil"]]
    /\ UNCHANGED <<db, last, maxIns, heap, threads, locks>>

ShapeDelete(key) ==
    LET r == BTreeDelete(bt.root, key) IN
    /\ bt' = [root |-> IF IsPanic(r.root) THEN bt.root ELSE r.root,
              stored |-> <<>>,
              last |-> [op |-> "Delete", key |-> Null, err |-> r.err]]
    /\ UNCHANGED <<db, last, maxIns, heap, threads, locks>>

NextBTreeShape ==
    \/ \E key \in {NewIntegerValue(k) : k \in 1..MaxSplitKey} : ShapeInsert(key)
    \/ \E key \in {NewIntegerValue(k) : k \in 1..MaxSplitKey} : ShapeDelete(key)

SpecBTreeShape == InitBTree /\ [][NextBTreeShape]_vars

Spell(chars) ==
    CASE Len(chars) = 1 -> chars[1]
      [] chars = <<"!", "=">> -> "!="
      [] chars = <<"<", "=">> -> "<="
      [] chars = <<">", "=">> -> ">="

Spelled(tokens) ==
    [i \in 1..Len(tokens) |->
        IF tokens[i].Type \in {TokenLiteral, TokenString} THEN tokens[i]
        ELSE [tokens[i] EXCEPT !.Value = Spell(@)]]

\* the expression of a text, parsed and evaluated: [err, val]; tokens left
\* after the expression are a syntax error of the statement around it
EvaluateText(input) ==
    LET tokens == Spelled(Tokenize(input))
        parsed == parseExpression(tokens, 0)
    IN IF parsed.err # "nil" THEN Err(parsed.err)
       ELSE IF parsed.pos < Len(tokens) THEN Err("unexpected token")
       ELSE evaluateExpression(parsed.expr, <<>>)

ComparisonOperators ==
    {<<"=">>, <<"!", "=">>, <<"<", ">">>, <<"<">>, <<"<", "=">>, <<">">>, <<">", "=">>}

Operands ==
    {<<Digits[d]>> : d \in 1..4} \cup {<<"'", Letters[n], "'">> : n \in 1..2}

Spaces == {<<>>, <<"SP">>}

InitComparison == last = NoCall /\ db = <<>> /\ maxIns = <<>> /\ NoAux

\* one comparison is evaluated
EvaluateComparison(a, cmp, b, space) ==
    /\ last = NoCall
    /\ LET r == EvaluateText(a \o space \o cmp \o space \o b) IN
       last' = [op |-> "Comparison", a |-> a, cmp |-> cmp, b |-> b,
                err |-> r.err, val |-> r.val]
    /\ UNCHANGED <<db, maxIns, aux>>

NextComparison ==
    \E a \in Operands, cmp \in ComparisonOperators, b \in Operands, space \in Spaces :
        EvaluateComparison(a, cmp, b, space)

SpecComparison == InitComparison /\ [][NextComparison]_vars

\* C34: a <> b and a != b are both accepted and both evaluate to the
\* Boolean "not a.Equals(b)".
C34_BothNotEqualOperators ==
    (last.op = "Comparison" /\ last.cmp \in {<<"!", "=">>, <<"<", ">">>}) =>
        /\ last.err = "nil"
        /\ last.val = NewBooleanValue(~Equals(EvaluateText(last.a).val,
                                              EvaluateText(last.b).val))

(***************************************************************************)
(* The grouping of parsed expressions.  An expression tree is written out  *)
(* with the fewest parentheses its grouping needs, the words are parsed,   *)
(* and the result is compared with the tree.                               *)
(***************************************************************************)
MaxOperands == 3

OperandNames == <<"a", "b", "c", "d">>

BinaryOperators == {"OR", "AND", "=", "<", "+", "-", "*", "/"}

\* the trees whose operands are, from left to right, the names from lo to hi;
\* every node is taken plain and under NOT
RECURSIVE TreesOver(_, _)
TreesOver(lo, hi) ==
    LET plain ==
          IF lo = hi THEN {Col("", OperandNames[lo])}
          ELSE UNION {{Bin(l, op, r) : l \in TreesOver(lo, mid),
                                       r \in TreesOver(mid + 1, hi),
                                       op \in BinaryOperators}
                      : mid \in lo..(hi - 1)}
    IN plain \cup {Unary("NOT", t) : t \in plain}

Trees == UNION {TreesOver(1, n) : n \in 1..MaxOperands}

\* the rank of a tree in the order OR < AND < NOT < comparison < additive <
\* multiplicative < primary
Rank(t) ==
    CASE t.e = "col" -> 7
      [] t.e = "unary" -> 3
      [] t.Op = "OR" -> 1
      [] t.Op = "AND" -> 2
      [] t.Op \in {"+", "-"} -> 5
      [] t.Op \in {"*", "/"} -> 6
      [] OTHER -> 4

\* the words of a tree where an operand of rank min or more is expected:
\* a left-associative operator takes its own rank on the left and the next
\* on the right, a comparison and NOT take the next rank
RECURSIVE Words(_, _)
Words(t, min) ==
    LET body ==
          CASE t.e = "col" -> <<t.Column>>
            [] t.e = "unary" -> <<t.Op>> \o Words(t.Right, 4)
            [] OTHER -> Words(t.Left, IF Rank(t) = 4 THEN 5 ELSE Rank(t))
                          \o <<t.Op>> \o Words(t.Right, Rank(t) + 1)
    IN IF Rank(t) < min THEN <<"(">> \o body \o <<")">> ELSE body

InitGrouping == last = NoCall /\ db = <<>> /\ maxIns = <<>> /\ NoAux

\* one parser reads the words of one tree
ParseExpression(tree) ==
    /\ last = NoCall
    /\ LET words == Words(tree, 1)
           res == parseExpression(TokenizeWords(words), 0)
       IN last' = [op |-> "ParseExpression", tree |-> tree, words |-> words,
                   err |-> res.err, pos |-> res.pos, expr |-> res.expr]
    /\ UNCHANGED <<db, maxIns, aux>>

NextGrouping == \E tree \in Trees : ParseExpression(tree)

SpecGrouping == InitGrouping /\ [][NextGrouping]_vars

\* C35: the parser reads every expression of OR, AND, NOT, comparisons,
\* + - * / and parentheses to its end and returns the tree that the order
\* OR < AND < NOT < comparison < additive < multiplicative < primary gives,
\* with OR, AND, + - and * / grouped to the left and a parenthesized
\* expression as one operand
C35_GroupsByPrecedence ==
    last.op = "ParseExpression" =>
        /\ last.err = "nil"
        /\ last.pos = Len(last.words)
        /\ last.expr = last.tree

\* a * (b + c) - the parentheses keep the sum together under the product
C35_Witness ==
    /\ last.op = "ParseExpression"
    /\ last.words = <<"a", "*", "(", "b", "+", "c", ")">>
    /\ last.expr = Bin(Col("", "a"), "*", Bin(Col("", "b"), "+", Col("", "c")))

(***************************************************************************)
(* One WHERE clause in SELECT, UPDATE and DELETE, on the child table of    *)
(* InitSelect.                                                             *)
(***************************************************************************)
\* WHERE 1, WHERE 'a', WHERE parent_id, WHERE id = 1, WHERE nosuch = 1
Wheres == {One, Lit(NewTextValue(1)), Col("", "parent_id"), IdIsOne, NoSuchColumn}

\* SELECT * FROM child WHERE w
SelectWhere(w) == [SelectFromChild EXCEPT !.Where = w]

\* UPDATE child SET parent_id = parent_id WHERE w
UpdateWhere(w) ==
    [Table |-> "child",
     SetClauses |-> <<[Column |-> "parent_id", Value |-> Col("", "parent_id")]>>,
     Where |-> w]

\* DELETE FROM child WHERE w
DeleteWhere(w) == [Table |-> "child", Where |-> w]

NextWhere ==
    \/ \E row \in SelectRows("child") : Insert("child", row)
    \/ \E w \in Wheres : ExecSelect(SelectWhere(w))
    \/ \E w \in Wheres : ExecUpdate(UpdateWhere(w))
    \/ \E w \in Wheres : ExecDelete(DeleteWhere(w))

SpecWhere == InitSelect /\ [][NextWhere]_vars

\* C36: an UPDATE or DELETE with a WHERE clause fails exactly when the
\* SELECT with that clause on the same rows fails, and otherwise touches or
\* removes as many rows as the SELECT returns; the rows a DELETE leaves are
\* the rows the SELECT does not return.
C36_WhereDecidesAlike ==
    [][(last'.op \in {"ExecUpdate", "ExecDelete"}) =>
        LET sel == executeSelect(db, SelectWhere(last'.stmt.Where))
            before == Rendered(db["child"].Rows)
            isKept(r) == \A i \in 1..Len(sel.Rows) : sel.Rows[i] # r
        IN /\ (sel.err = "nil") = (last'.err = "nil")
           /\ sel.err = "nil" =>
                /\ last'.n = Len(sel.Rows)
                /\ last'.op = "ExecDelete" =>
                     Rendered(db'["child"].Rows) = SelectSeq(before, isKept)]_vars

(***************************************************************************)
(* CascadeDelete on catalogs of three tables (id INTEGER PRIMARY KEY,      *)
(* parent_id INTEGER).  A foreign key on parent_id is added to a table     *)
(* with AddForeignKey, to any table, itself included, with any ON DELETE   *)
(* action; rows are stored with Table.Insert.                              *)
(***************************************************************************)
MaxCatalogRows == 1

\* the foreign keys of a catalog, at most one per table
MaxForeignKeys == 2

CatalogTables == {"a", "b", "c"}

InitCatalog ==
    /\ db = [n \in CatalogTables |-> CreatedTable(n, ChildSchema)]
    /\ last = NoCall
    /\ maxIns = [n \in CatalogTables |-> 0]
    /\ NoAux

CatalogRows ==
    {<<NewIntegerValue(i), r>> :
        i \in 1..MaxCatalogRows,
        r \in {Null} \cup {NewIntegerValue(j) : j \in 1..MaxCatalogRows}}

\* FOREIGN KEY (parent_id) REFERENCES t (id) ON DELETE action
CatalogForeignKeys ==
    {[Columns |-> <<"parent_id">>, RefTable |-> t, RefColumns |-> <<"id">>,
      OnDelete |-> action, OnUpdate |-> FKActionNoAction] :
        t \in CatalogTables,
        action \in {FKActionCascade, FKActionRestrict, FKActionSetNull,
                    FKActionNoAction}}

CatalogInsert(name, row) ==
    /\ Len(db[name].Rows) < MaxCatalogRows
    /\ Insert(name, row)

AddForeignKey(name, fk) ==
    /\ db[name].ForeignKeys = <<>>
    /\ Cardinality({n \in CatalogTables : db[n].ForeignKeys # <<>>}) < MaxForeignKeys
    /\ db' = DbAddForeignKey(db, name, fk)
    /\ last' = [NoCall EXCEPT !.op = "AddForeignKey"]
    /\ UNCHANGED <<maxIns, aux>>

NextCatalog ==
    \/ \E name \in CatalogTables : \E row \in CatalogRows : CatalogInsert(name, row)
    \/ \E name \in CatalogTables : \E fk \in CatalogForeignKeys :
            AddForeignKey(name, fk)
    \/ \E name \in CatalogTables : \E rowID \in 0..(MaxCatalogRows - 1) :
            \E order \in Orders(CatalogTables \ {name}) :
                CascadeDeleteCall(name, rowID, order)

SpecCatalog == InitCatalog /\ [][NextCatalog]_vars

\* the rows of a catalog, each as <<table, primary key>>
RowsOf(tables) ==
    UNION {{<<n, Get(tables[n].Rows[i], PkColIndex(tables[n].Schema))>> :
                i \in 1..Len(tables[n].Rows)} : n \in DOMAIN tables}

\* the row <<n, pk>> references a row of the set through an ON DELETE
\* CASCADE foreign key
ReferencesInto(tables, n, pk, set) ==
    \E i \in 1..Len(tables[n].Rows) : \E f \in 1..Len(tables[n].ForeignKeys) :
        LET fk == tables[n].ForeignKeys[f]
            row == tables[n].Rows[i]
        IN /\ Get(row, PkColIndex(tables[n].Schema)) = pk
           /\ fk.OnDelete = FKActionCascade
           /\ <<fk.RefTable, Get(row, ColumnIndex(tables[n].Schema, fk.Columns[1]))>>
                \in set

\* the rows that reference a row of the set, directly or through other rows
RECURSIVE Dependents(_, _)
Dependents(tables, set) ==
    LET more == set \cup {r \in RowsOf(tables) :
                            ReferencesInto(tables, r[1], r[2], set)}
    IN IF more = set THEN set ELSE Dependents(tables, more)

\* C37: a CascadeDelete that returns removes, besides the row it is called
\* for, only rows that reference that row directly or transitively through
\* ON DELETE CASCADE foreign keys.
C37_CascadeRemovesOnlyDependents ==
    [][(last'.op = "CascadeDelete" /\ last'.err = "nil" /\ last'.pk # Null) =>
        (RowsOf(db) \ RowsOf(db'))
            \subseteq Dependents(db, {<<last'.table, last'.pk>>})]_vars

\* C38: CascadeDelete returns on every catalog; the recursion of
\* cascadeDeleteInternal never repeats a call in progress.
C38_CascadeTerminates ==
    last.op = "CascadeDelete" => last.err # "fatal error: stack overflow"

(***************************************************************************)
(* Concurrent calls of Table.Insert on users (id INTEGER PRIMARY KEY,      *)
(* email TEXT UNIQUE NOT NULL).  A call locks the table's mutex, validates *)
(* its row against the rows stored (lines 132-242), stores the row (lines  *)
(* 244-274) and unlocks on return.  threads[th] is the call in progress:   *)
(* its row, its position in InsertProgram and what the validation found.   *)
(***************************************************************************)
\* a call with no mutex around its steps
InsertProgramUnlocked == <<"Validate", "Store">>

\* t.mu.Lock(); defer t.mu.Unlock()
InsertProgram == <<"Lock", "Validate", "Store", "Unlock">>

NoInsert == [row |-> <<>>, pc |-> 0, res |-> <<>>]

InsertRows ==
    {<<k, NewTextValue(e)>> : k \in {Null, NewIntegerValue(1)}, e \in 1..2}

InitInserts ==
    /\ db = [n \in {"users"} |-> CreatedTable(n, UsersSchema)]
    /\ threads = [th \in Threads |-> NoInsert]
    /\ locks = [l \in {TableLock("users")} |-> Free]
    /\ last = NoCall
    /\ maxIns = <<>>
    /\ heap = <<>>
    /\ bt = <<>>

InsertStep(th, step) ==
    /\ threads[th].pc \in 1..Len(InsertProgram)
    /\ InsertProgram[threads[th].pc] = step

\* both calls start on the empty table: no value is stored before them
InsertStart(th, row) ==
    /\ threads[th] = NoInsert
    /\ db["users"].Rows = <<>>
    /\ threads' = [threads EXCEPT ![th] = [row |-> row, pc |-> 1, res |-> <<>>]]
    /\ UNCHANGED <<db, locks, last, maxIns, heap, bt>>

InsertLock(th) ==
    /\ InsertStep(th, "Lock")
    /\ locks[TableLock("users")] = Free
    /\ locks' = [locks EXCEPT ![TableLock("users")].w = th]
    /\ threads' = [threads EXCEPT ![th].pc = @ + 1]
    /\ UNCHANGED <<db, last, maxIns, heap, bt>>

\* lines 132-242: the key is assigned, the columns are checked against the
\* rows stored and the final row is built
InsertValidate(th) ==
    /\ InsertStep(th, "Validate")
    /\ LET r == TableInsert(db["users"], threads[th].row) IN
       threads' = [threads EXCEPT
            ![th].pc = @ + 1,
            ![th].res = [err |-> r.err, id |-> r.id, seq |-> r.t.RowIDSeq,
                         row |-> IF r.err = "nil"
                                 THEN r.t.Rows[Len(r.t.Rows)] ELSE <<>>]]
    /\ UNCHANGED <<db, locks, last, maxIns, heap, bt>>

\* lines 244-274: the sequence, the row and its index entries are written
InsertStore(th) ==
    /\ InsertStep(th, "Store")
    /\ LET res == threads[th].res
           t == db["users"]
       IN db' = [db EXCEPT !["users"] =
                    IF res.err # "nil" THEN [t EXCEPT !.RowIDSeq = res.seq]
                    ELSE [t EXCEPT !.Rows = Append(t.Rows, res.row),
                                   !.RowIDSeq = res.seq,
                                   !.Indexes = IndexRow(t, res.row, res.id)]]
    /\ threads' = [threads EXCEPT ![th].pc = @ + 1]
    /\ UNCHANGED <<locks, last, maxIns, heap, bt>>

InsertUnlock(th) ==
    /\ InsertStep(th, "Unlock")
    /\ locks' = [locks EXCEPT ![TableLock("users")].w = 0]
    /\ threads' = [threads EXCEPT ![th].pc = @ + 1]
    /\ UNCHANGED <<db, last, maxIns, heap, bt>>

NextInserts ==
    \/ \E th \in Threads : \E row \in InsertRows : InsertStart(th, row)
    \/ \E th \in Threads : InsertLock(th)
    \/ \E th \in Threads : InsertValidate(th)
    \/ \E th \in Threads : InsertStore(th)
    \/ \E th \in Threads : InsertUnlock(th)

SpecInserts == InitInserts /\ [][NextInserts]_vars

\* the two rows hold the same non-null value in a primary-key or unique
\* column
SameConstrainedValue(row1, row2) ==
    \E i \in 1..Len(UsersSchema) :
        /\ UsersSchema[i].PrimaryKey \/ UsersSchema[i].Unique
        /\ row1[i] # Null
        /\ row1[i] = row2[i]

\* C39: of two concurrent inserts with the same non-null value in a
\* primary-key or unique column, with no third call, exactly one succeeds;
\* two concurrent inserts that omit the primary key and succeed get
\* different keys; and the table never holds two rows with one key.
C39_ConcurrentInsertsAreSerialized ==
    /\ \A th1, th2 \in Threads :
        (th1 # th2 /\ threads[th1].res # <<>> /\ threads[th2].res # <<>>) =>
            LET c1 == threads[th1]
                c2 == threads[th2]
            IN /\ (/\ SameConstrainedValue(c1.row, c2.row)
                    /\ \A th \in Threads \ {th1, th2} : threads[th] = NoInsert) =>
                    (c1.res.err = "nil") # (c2.res.err = "nil")
               /\ (c1.row[1] = Null /\ c2.row[1] = Null
                   /\ c1.res.err = "nil" /\ c2.res.err = "nil") =>
                    c1.res.row[1] # c2.res.row[1]
    /\ \A i, j \in 1..Len(db["users"].Rows) :
            i # j => db["users"].Rows[i][1] # db["users"].Rows[j][1]

\* two calls with the key 1 have both run: one stored its row and the other
\* was rejected
C39_Witness ==
    \E th1, th2 \in Threads :
        /\ th1 # th2
        /\ threads[th1].pc > Len(InsertProgram)
        /\ threads[th2].pc > Len(InsertProgram)
        /\ threads[th1].row[1] = NewIntegerValue(1)
        /\ threads[th2].row[1] = NewIntegerValue(1)
        /\ threads[th1].res.err = "nil"
        /\ threads[th2].res.err # "nil"
        /\ Len(db["users"].Rows) = 1

(***************************************************************************)
(* Quoted strings: the text 'chars' is evaluated, and the value is         *)
(* inserted as the email of a row of users, a TEXT column.                 *)
(***************************************************************************)
MaxQuoted == 3

QuotedAlphabet == {"1", "5", ".", "-", "a"}

Quoted ==
    UNION {[1..n -> QuotedAlphabet] : n \in 0..MaxQuoted}
    \cup {<<"t", "r", "u", "e">>, <<"T", "R", "U", "E">>,
          <<"f", "a", "l", "s", "e">>}

InitQuoted == last = NoCall /\ db = <<>> /\ maxIns = <<>> /\ NoAux

\* INSERT INTO users VALUES (NULL, 'chars')
EvaluateQuoted(chars) ==
    /\ last = NoCall
    /\ LET r == EvaluateText(<<"'">> \o chars \o <<"'">>)
           stored == IF r.err # "nil" THEN r.err
                     ELSE TableInsert(CreatedTable("users", UsersSchema),
                                      <<Null, r.val>>).err
       IN last' = [op |-> "Quoted", chars |-> chars, err |-> r.err,
                   val |-> r.val, stored |-> stored]
    /\ UNCHANGED <<db, maxIns, aux>>

NextQuoted == \E chars \in Quoted : EvaluateQuoted(chars)

SpecQuoted == InitQuoted /\ [][NextQuoted]_vars

\* C40: a single-quoted string evaluates to the Text value of the quoted
\* characters, whatever they are, and that value is accepted by a TEXT
\* column.
C40_QuotedStringIsText ==
    last.op = "Quoted" =>
        /\ last.err = "nil"
        /\ last.val = NewTextValue(TextOf(last.chars))
        /\ last.stored = "nil"

====
